---- MODULE Spec2Model ----
(***************************************************************************)
(* A model of the PiAssistant gateway core:                                *)
(*   - SessionWatcher  (session-watcher.ts): the ownership arbiter that    *)
(*     polls the TUI lock marker;                                          *)
(*   - PiRpcClient     (pi-rpc.ts): the supervisor of the agent subprocess,*)
(*     with the exit-triggered delayed restart wired in index.ts;          *)
(*   - BroadcastManager (broadcast.ts): the hub that turns the agent's     *)
(*     event stream into messages for the registered clients.              *)
(* Every await of the source is a point where other callbacks may run, so  *)
(* an asynchronous method is split into one action per resumption.         *)
(***************************************************************************)
EXTENDS Integers, Sequences, FiniteSets, Bags, TLC

\* ------------------------------------------------------------------ bounds
MaxPid == 1          \* external process ids that may appear in the lock marker
MaxCalls == 2        \* getActiveLock() calls in flight at the same time
MaxNotes == 3        \* notifications after which no further poll is started
MaxSpawn == 3        \* subprocesses the client spawns in one run
MaxReq == 2          \* correlation ids the client issues in one run
MaxEvents == 7       \* upstream events the hub handles in one run
MaxHubEvents == 5    \* upstream events in the runs with every tool, result and delta
MaxClients == 2      \* subscribers that exist in one run
MaxFanout == 3       \* events the hub fans out in one run with subscribers
MaxKills == 2        \* killTui() / handleTakeover() calls in one run
MaxClock == 2        \* last tick of the wall clock
TicksPerSecond == 2  \* clock ticks in one second of the archive timestamp
MaxContent == 1      \* versions of the session file after the first
MaxArchives == 2     \* archiveBeforeCompaction() calls in one run
MaxCompactions == 1  \* auto_compaction_end events in one run
MaxSends == 2        \* send() calls in one run
MaxLines == 2        \* response lines handled in one run
MaxBadLines == 2     \* dropped lines in one run
MaxTgSends == 3      \* send() calls of the Telegram subscriber in one run
MaxTgTurns == 2      \* Telegram messages that set a context in one run
MaxLog == 3          \* lines of the session log get_history reads
MaxLimit == 3        \* largest limit a get_history asks for
MaxText == 3         \* characters of PiRpcClient.currentText

VARIABLES
    \* SessionWatcher and its environment
    interval,        \* this.interval is set (the poll timer runs)
    tuiActive,       \* this.tuiActive
    listeners,       \* this.listeners (who reacts to tui-detected / tui-gone)
    calls,           \* bag of getActiveLock() calls that are suspended at an await
    lockFile,        \* content of the lock marker on disk
    pidState,        \* external processes, as process.kill(pid, 0) sees them
    notes,           \* notifications emitted to the listeners, in order
    statusResult,    \* what the last completed checkStatus() returned
    everInvalid,     \* history: the marker was invalid at some moment since the last tui-detected
    \* PiRpcClient, its children and the index.ts wiring
    process,         \* this.process: 0 for null, else the child it refers to
    children,        \* each spawned child: unborn, running, terminating, exited, reaped
    promises,        \* the promises of prompt() / sendAndWait(), indexed by requestId
    restartTimers,   \* pending setTimeout(() => pi.start(), 2000) of index.ts
    reloads,         \* reload() calls sleeping between stop() and start()
    mainPc,          \* main(): "init" before its pi.start(), "started" after
    lastCall,        \* outcome of the last call of the client's API
    \* BroadcastManager: the closure state of setupPiListeners and the registry
    currentText,     \* let currentText
    proseStartOffset,\* let proseStartOffset
    insideTool,      \* let insideTool
    currentThinking, \* let currentThinking
    isThinking,      \* let isThinking
    currentPrompt,   \* this.currentPrompt: "null" or "set"
    clients,         \* this.clients: the ids of the Map, in insertion order
    available,       \* what isAvailable() of each subscriber returns
    sendKind,        \* each subscriber's send: an async function or a plain one
    sent,            \* per subscriber, the messages its send() was called with
    hubLog,          \* the messages broadcast() was called with, in order
    bcastExclude,    \* excludeClientId of the last broadcast() (0: none)
    bcastResult,     \* how the promise of the last broadcast() settled
    \* the agent's side of the event stream
    nEvents,         \* upstream events handled so far
    lastEvent,       \* the upstream event handled last
    upOpen,          \* call ids whose tool_execution_start had no tool_execution_end yet
    upBlock,         \* text deltas of the text block the agent is streaming
    sinceToolEnd,    \* text deltas of this turn after its last tool_execution_end
    turnOpen,        \* an event of the current turn was handled, agent_end not yet
    regAt,           \* per subscriber, Len(hubLog) when it registered
    regMid,          \* per subscriber, whether it registered in the middle of a turn
    \* killTui() and handleTakeover()
    killResult,      \* what the last killTui() returned
    signals,         \* pids process.kill(pid, "SIGTERM") was delivered to, in order
    nKills,          \* killTui() / handleTakeover() calls so far
    takeoverReply,   \* what the last handleTakeover() returned
    \* SessionManager
    clock,           \* the wall clock, in ticks of 1/TicksPerSecond second
    archiveDir,      \* the archive directory exists
    archives,        \* the files of the archive directory: [name, content]
    sessionFile,     \* the content (a version number) of the session file
    compactionCount, \* SessionManager.compactionCount
    endsSince,       \* auto_compaction_end events since archiveAndStartNew() last succeeded
    archiveLog,      \* what each archiveBeforeCompaction() returned, in order
    handlerFailed,   \* an "event" handler of SessionManager ended with an exception
    newCall,         \* the archiveAndStartNew() call: position and result
    \* callers of the client in the gateway
    stateCall,       \* the BroadcastManager.getState() call: position and result
    promptRet,       \* what the last sendPrompt() returned
    watched,         \* prompts (indices of promises) with the .catch of sendPrompt
    lastSend,        \* what the last send() did
    lastLine,        \* the response line handleLine() handled last
    startCall,       \* the start() call: position and result
    \* gateway and client, further state
    badLines,        \* lines handleLine() dropped: how many, after which response line
    piText,          \* PiRpcClient.currentText
    turns,           \* per prompt() of promises: who called, deltas since, text resolved,
                     \* what the caller did with it, Len(hubLog) at the call
    wsClients,       \* per connection: in WebSocketGateway.clients, socket, isAlive
    wss,             \* the WebSocket server: "listening" or "stopped"
    restartAttempts, \* pi.start() calls made by the restart timers of index.ts
    labelCall,       \* the last formatToolLabel(toolName, args) and its result
    cut,             \* the subprocess exit that cut a turn short: hubLog length then
    tg,              \* TelegramClient: its fields, its API calls in flight, the replies delivered
    histCall         \* the last get_history: the log, the limit, the messages sent

watcherVars == <<interval, tuiActive, listeners, calls, lockFile, pidState, notes,
                 statusResult, everInvalid>>
piVars == <<process, children, promises, restartTimers, reloads, mainPc, lastCall>>
hubVars == <<currentText, proseStartOffset, insideTool, currentThinking, isThinking,
             currentPrompt, clients, available, sendKind, sent, hubLog, bcastExclude,
             bcastResult,
             nEvents, lastEvent, upOpen, upBlock, sinceToolEnd, turnOpen, regAt, regMid>>
killVars == <<killResult, signals, nKills, takeoverReply>>
sessVars == <<clock, archiveDir, archives, sessionFile, compactionCount, endsSince,
          archiveLog,
              handlerFailed, newCall>>
rpcVars == <<stateCall, promptRet, watched, lastSend, lastLine, startCall>>
auxVars == <<labelCall,
          cut,
          tg,
          histCall>>
gwVars == <<badLines, piText, turns, wsClients, wss, restartAttempts, labelCall,
          cut,
          tg,
          histCall>>
extVars == <<killResult, signals, nKills, takeoverReply,
             clock, archiveDir, archives, sessionFile, compactionCount, endsSince,
          archiveLog,
             handlerFailed, newCall,
             stateCall, promptRet, watched, lastSend, lastLine, startCall,
             badLines, piText, turns, wsClients, wss, restartAttempts, labelCall,
          cut,
          tg,
          histCall>>
vars == <<interval, tuiActive, listeners, calls, lockFile, pidState, notes,
          statusResult, everInvalid,
          process, children, promises, restartTimers, reloads, mainPc, lastCall,
          currentText, proseStartOffset, insideTool, currentThinking, isThinking,
          currentPrompt, clients, available, sendKind, sent, hubLog, bcastExclude,
          bcastResult,
          nEvents, lastEvent, upOpen, upBlock, sinceToolEnd, turnOpen, regAt, regMid,
          killResult, signals, nKills, takeoverReply,
          clock, archiveDir, archives, sessionFile, compactionCount, endsSince,
          archiveLog,
          handlerFailed, newCall,
          stateCall, promptRet, watched, lastSend, lastLine, startCall,
          badLines, piText, turns, wsClients, wss, restartAttempts, labelCall,
          cut,
          tg,
          histCall>>

\* ------------------------------------------------------- PiRpcClient (pi-rpc.ts)
ChildIds == 1..MaxSpawn

\* The OS process of a child exists (SIGTERM may have been sent to it already).
Alive(c) == children[c] \in {"running", "terminating"}

Spawned == {c \in ChildIds : children[c] # "unborn"}

\* get isRunning(): this.process !== null && this.process.exitCode === null.
\* exitCode is set when the child's exit is dispatched ("reaped").
\* A child whose spawn failed ("failed") has a negative exitCode.
IsRunning == process # 0 /\ children[process] \notin {"reaped", "failed"}

CanSpawn == Cardinality(Spawned) < MaxSpawn

NewChild == Cardinality(Spawned) + 1

\* start(), up to its first await: nothing when isRunning, else spawn and keep the
\* child in this.process.  [process, children] after the call.
StartEffect ==
    IF IsRunning
    THEN [process |-> process, children |-> children]
    ELSE [process |-> NewChild, children |-> [children EXCEPT ![NewChild] = "running"]]

\* stop(): SIGTERM to this.process, then forget it, without waiting for its exit.
StopEffect ==
    IF process # 0
    THEN [process |-> 0,
          children |-> [children EXCEPT ![process] =
                           IF @ = "running" THEN "terminating" ELSE @]]
    ELSE [process |-> process, children |-> children]

PiInit ==
    /\ process = 0
    /\ children = [c \in ChildIds |-> "unborn"]
    /\ promises = <<>>
    /\ restartTimers = 0
    /\ reloads = 0
    /\ mainPc = "init"
    /\ lastCall = "none"

\* main(): await pi.start() (index.ts), once.
MainStart ==
    /\ mainPc = "init"
    /\ mainPc' = "started"
    /\ process' = StartEffect.process
    /\ children' = StartEffect.children
    /\ lastCall' = "start"
    /\ UNCHANGED <<promises, restartTimers, reloads>>
    /\ UNCHANGED watcherVars
    /\ UNCHANGED hubVars
    /\ UNCHANGED extVars

\* Any later caller of start().
ApiStart ==
    /\ mainPc = "started"
    /\ IsRunning \/ CanSpawn
    /\ process' = StartEffect.process
    /\ children' = StartEffect.children
    /\ lastCall' = IF IsRunning THEN "start_noop" ELSE "start"
    /\ UNCHANGED <<promises, restartTimers, reloads, mainPc>>
    /\ UNCHANGED watcherVars
    /\ UNCHANGED hubVars
    /\ UNCHANGED extVars

\* Any caller of stop().
ApiStop ==
    /\ mainPc = "started"
    /\ process' = StopEffect.process
    /\ children' = StopEffect.children
    /\ lastCall' = IF process # 0 THEN "stop" ELSE "stop_noop"
    /\ UNCHANGED <<promises, restartTimers, reloads, mainPc>>
    /\ UNCHANGED watcherVars
    /\ UNCHANGED hubVars
    /\ UNCHANGED extVars

\* reload(): stop(), then sleep 500 ms.
ReloadBegin ==
    /\ mainPc = "started"
    /\ reloads = 0
    /\ reloads' = 1
    /\ process' = StopEffect.process
    /\ children' = StopEffect.children
    /\ lastCall' = "reload"
    /\ UNCHANGED <<promises, restartTimers, mainPc>>
    /\ UNCHANGED watcherVars
    /\ UNCHANGED hubVars
    /\ UNCHANGED extVars

\* reload(), after the sleep: start().
ReloadResume ==
    /\ reloads > 0
    /\ IsRunning \/ CanSpawn
    /\ reloads' = reloads - 1
    /\ process' = StartEffect.process
    /\ children' = StartEffect.children
    /\ lastCall' = "reload_done"
    /\ UNCHANGED <<promises, restartTimers, mainPc>>
    /\ UNCHANGED watcherVars
    /\ UNCHANGED hubVars
    /\ UNCHANGED extVars

\* The OS process of a child ends: a crash, its own exit, or the SIGTERM taking effect.
ChildDies(c) ==
    /\ Alive(c)
    /\ children' = [children EXCEPT ![c] = "exited"]
    /\ UNCHANGED <<process, promises, restartTimers, reloads, mainPc, lastCall>>
    /\ UNCHANGED watcherVars
    /\ UNCHANGED hubVars
    /\ UNCHANGED extVars

\* The child's "exit" event is dispatched: the handler installed by start() clears
\* this.process, whichever child it holds, and emits "exit"; the listener of
\* index.ts schedules the delayed start().
ExitEvent(c) ==
    /\ children[c] = "exited"
    /\ children' = [children EXCEPT ![c] = "reaped"]
    /\ process' = 0
    /\ restartTimers' = restartTimers + 1
    /\ UNCHANGED <<promises, reloads, mainPc, lastCall>>
    /\ UNCHANGED watcherVars
    /\ UNCHANGED hubVars
    /\ UNCHANGED extVars

\* The timer of index.ts fires: pi.start().
RestartTimer ==
    /\ restartTimers > 0
    /\ IsRunning \/ CanSpawn
    /\ restartTimers' = restartTimers - 1
    /\ process' = StartEffect.process
    /\ children' = StartEffect.children
    /\ lastCall' = IF IsRunning THEN "restart_noop" ELSE "restart"
    /\ UNCHANGED <<promises, reloads, mainPc>>
    /\ UNCHANGED watcherVars
    /\ UNCHANGED hubVars
    /\ UNCHANGED extVars

\* The correlation id `cmd-${++this.requestId}` of sendAndWait, `req-${++this.requestId}`
\* of prompt, as <<prefix, number>>.  requestId starts at 0, is incremented by
\* exactly these two expressions and never reset, and every increment adds one
\* entry to promises: ++this.requestId is Len(promises) + 1.
CorrelationId(kind, n) == <<IF kind = "prompt" THEN "req" ELSE "cmd", n>>

\* The promise of an accepted prompt() or sendAndWait() with its listeners.
NewPromise(kind, n) ==
    [kind |-> kind, state |-> "pending", child |-> process, id |-> CorrelationId(kind, n)]

\* prompt(message): rejected at once when not running; else a new id, the
\* "event" and "error" listeners, and the command written to this.process.
Prompt ==
    /\ Len(promises) < MaxReq
    /\ IF IsRunning
       THEN /\ promises' = Append(promises,
                   NewPromise("prompt", Len(promises) + 1))
            /\ lastCall' = "prompt"
       ELSE /\ promises' = promises
            /\ lastCall' = "prompt_not_running"
    /\ UNCHANGED <<process, children, restartTimers, reloads, mainPc>>
    /\ UNCHANGED watcherVars
    /\ UNCHANGED hubVars
    /\ UNCHANGED extVars

\* sendAndWait(command): throws when not running; else a new id, the "response"
\* and "error" listeners, and the command written to this.process.
Request ==
    /\ Len(promises) < MaxReq
    /\ IF IsRunning
       THEN /\ promises' = Append(promises,
                   NewPromise("request", Len(promises) + 1))
            /\ lastCall' = "request"
       ELSE /\ promises' = promises
            /\ lastCall' = "request_not_running"
    /\ UNCHANGED <<process, children, restartTimers, reloads, mainPc>>
    /\ UNCHANGED watcherVars
    /\ UNCHANGED hubVars
    /\ UNCHANGED extVars

\* handleLine of a response line carrying the id of request i: onResponse of that
\* request settles it by response.success; every other listener ignores the line.
Response(i, success) ==
    /\ promises[i].kind = "request"
    /\ promises[i].state = "pending"
    /\ Alive(promises[i].child)
    /\ promises' = [promises EXCEPT ![i].state =
                       IF success THEN "resolved" ELSE "rejected"]
    /\ UNCHANGED <<process, children, restartTimers, reloads, mainPc, lastCall>>
    /\ UNCHANGED watcherVars
    /\ UNCHANGED hubVars
    /\ UNCHANGED extVars

\* handleLine of an agent_end event: onEvent of every outstanding prompt resolves it.
AgentEndLine(c) ==
    /\ Alive(c)
    /\ \E i \in DOMAIN promises :
          promises[i].kind = "prompt" /\ promises[i].state = "pending"
    /\ promises' = [i \in DOMAIN promises |->
                       IF promises[i].kind = "prompt" /\ promises[i].state = "pending"
                       THEN [promises[i] EXCEPT !.state = "resolved"]
                       ELSE promises[i]]
    /\ UNCHANGED <<process, children, restartTimers, reloads, mainPc, lastCall>>
    /\ UNCHANGED watcherVars
    /\ UNCHANGED hubVars
    /\ UNCHANGED extVars

\* The child emits "error": this.emit("error", err) runs onError of every
\* outstanding prompt and request, which rejects it.
ProcessError(c) ==
    /\ Alive(c)
    /\ \E i \in DOMAIN promises : promises[i].state = "pending"
    /\ promises' = [i \in DOMAIN promises |->
                       IF promises[i].state = "pending"
                       THEN [promises[i] EXCEPT !.state = "rejected"]
                       ELSE promises[i]]
    /\ UNCHANGED <<process, children, restartTimers, reloads, mainPc, lastCall>>
    /\ UNCHANGED watcherVars
    /\ UNCHANGED hubVars
    /\ UNCHANGED extVars

\* ------------------------------------------- SessionWatcher (session-watcher.ts)
Pids == 1..MaxPid

Sessions == {"managed", "other", "none"}

\* What readFile(lockPath) can yield: no file, a file that is not the JSON of an
\* object, or a lock.  pid 0 stands for a missing or non-numeric pid, session
\* "managed" for a path that resolves to the managed session, "other" for any
\* other path and "none" for a missing or empty session field.
NoFile == [kind |-> "absent", pid |-> 0, session |-> "none"]

Garbage == [kind |-> "garbage", pid |-> 0, session |-> "none"]

Lock(p, s) == [kind |-> "lock", pid |-> p, session |-> s]

LockContents == {Garbage, Lock(0, "managed")} \cup {Lock(p, s) : p \in Pids, s \in Sessions}

\* isPidAlive(pid): process.kill(pid, 0) succeeds, or fails with EPERM.
IsPidAlive(pid) == pidState[pid] \in {"alive", "eperm"}

\* getActiveLock() that returns null for a dead owner without clearLock().
GetActiveLock_NoClear(raw) ==
    IF raw.kind # "lock" THEN "null"
    ELSE IF raw.pid = 0 THEN "null"
    ELSE IF raw.session # "none" /\ raw.session # "managed" THEN "null"
    ELSE IF ~IsPidAlive(raw.pid) THEN "null"
    ELSE "lock"

\* getActiveLock() without the comparison of the session path.
GetActiveLock_AnySession(raw) ==
    IF raw.kind # "lock" THEN "null"
    ELSE IF raw.pid = 0 THEN "null"
    ELSE IF ~IsPidAlive(raw.pid) THEN "stale"
    ELSE "lock"

\* getActiveLock() from the content it read to its first return or await:
\* "null" (return null), "stale" (await clearLock(), then return null), "lock".
GetActiveLock(raw) ==
    IF raw.kind # "lock" THEN "null"
    ELSE IF raw.pid = 0 THEN "null"
    ELSE IF raw.session # "none" /\ raw.session # "managed" THEN "null"
    ELSE IF ~IsPidAlive(raw.pid) THEN "stale"
    ELSE "lock"

Call(op, stage, raw) == [op |-> op, stage |-> stage, raw |-> raw]

One(c) == SetToBag({c})

InFlight == BagToSet(calls)

\* The marker on disk names a live process and the managed session path.
MarkerValidOf(lf, ps) ==
    /\ lf.kind = "lock"
    /\ lf.pid \in Pids
    /\ lf.session = "managed"
    /\ ps[lf.pid] # "dead"

MarkerValid == MarkerValidOf(lockFile, pidState)

\* History of the marker since the last tui-detected.
Hist(detected, lf, ps) ==
    IF detected THEN ~MarkerValidOf(lf, ps) ELSE everInvalid \/ ~MarkerValidOf(lf, ps)

WatcherInit ==
    /\ interval = FALSE
    /\ tuiActive = FALSE
    /\ calls = EmptyBag
    /\ lockFile = NoFile
    /\ pidState = [p \in Pids |-> "dead"]
    /\ notes = <<>>
    /\ statusResult = "unset"
    /\ everInvalid = TRUE

\* poll() hands the notification to every listener registered with on().
\* index.ts registers none, so the loop has no iteration and the client is left
\* as it is.
OnTuiEvent(type) ==
    /\ listeners = {}
    /\ UNCHANGED piVars

\* poll() that notifies tui-gone whenever no lock was found, whatever
\* this.tuiActive was.
PollTail_GoneAlways(isActive) ==
    /\ UNCHANGED statusResult
    /\ IF isActive /\ ~tuiActive
       THEN /\ tuiActive' = TRUE
            /\ notes' = Append(notes, "tui-detected")
            /\ everInvalid' = Hist(TRUE, lockFile, pidState)
            /\ OnTuiEvent("tui-detected")
       ELSE IF ~isActive
       THEN /\ tuiActive' = FALSE
            /\ notes' = Append(notes, "tui-gone")
            /\ everInvalid' = everInvalid
            /\ OnTuiEvent("tui-gone")
       ELSE /\ UNCHANGED <<tuiActive, notes, everInvalid>>
            /\ UNCHANGED piVars
    /\ UNCHANGED hubVars
    /\ UNCHANGED extVars

\* poll() after its await: compare with this.tuiActive as it is now, flip it and
\* notify the listeners on a change.
PollTail(isActive) ==
    /\ UNCHANGED statusResult
    /\ IF isActive /\ ~tuiActive
       THEN /\ tuiActive' = TRUE
            /\ notes' = Append(notes, "tui-detected")
            /\ everInvalid' = Hist(TRUE, lockFile, pidState)
            /\ OnTuiEvent("tui-detected")
       ELSE IF ~isActive /\ tuiActive
       THEN /\ tuiActive' = FALSE
            /\ notes' = Append(notes, "tui-gone")
            /\ everInvalid' = everInvalid
            /\ OnTuiEvent("tui-gone")
       ELSE /\ UNCHANGED <<tuiActive, notes, everInvalid>>
            /\ UNCHANGED piVars
    /\ UNCHANGED hubVars
    /\ UNCHANGED extVars

\* checkStatus() after its await.
StatusTail(isActive) ==
    /\ statusResult' = IF isActive THEN "active" ELSE "none"
    /\ UNCHANGED <<tuiActive, notes, everInvalid>>
    /\ UNCHANGED piVars
    /\ UNCHANGED hubVars
    /\ UNCHANGED extVars

CallerTail(op, isActive) ==
    IF op = "poll" THEN PollTail(isActive) ELSE StatusTail(isActive)

\* start(): setInterval(() => this.poll(), pollIntervalMs), unless it runs already.
WatcherStart ==
    /\ ~interval
    /\ interval' = TRUE
    /\ UNCHANGED <<tuiActive, listeners, calls, lockFile, pidState, notes,
                   statusResult, everInvalid>>
    /\ UNCHANGED piVars
    /\ UNCHANGED hubVars
    /\ UNCHANGED extVars

\* stop(): clearInterval; polls in flight still complete.
WatcherStop ==
    /\ interval
    /\ interval' = FALSE
    /\ UNCHANGED <<tuiActive, listeners, calls, lockFile, pidState, notes,
                   statusResult, everInvalid>>
    /\ UNCHANGED piVars
    /\ UNCHANGED hubVars
    /\ UNCHANGED extVars

\* The interval timer fires: poll() calls getActiveLock(), whose readFile sees the
\* marker as it is; the call is suspended until the read is delivered.  Nothing
\* keeps a tick from firing while an earlier poll is still suspended.
PollTick ==
    /\ interval
    /\ BagCardinality(calls) < MaxCalls
    /\ Len(notes) < MaxNotes
    /\ calls' = calls (+) One(Call("poll", "read", lockFile))
    /\ UNCHANGED <<interval, tuiActive, listeners, lockFile, pidState, notes,
                   statusResult, everInvalid>>
    /\ UNCHANGED piVars
    /\ UNCHANGED hubVars
    /\ UNCHANGED extVars

\* A caller of checkStatus().
CheckStatusCall ==
    /\ BagCardinality(calls) < MaxCalls
    /\ calls' = calls (+) One(Call("checkStatus", "read", lockFile))
    /\ UNCHANGED <<interval, tuiActive, listeners, lockFile, pidState, notes,
                   statusResult, everInvalid>>
    /\ UNCHANGED piVars
    /\ UNCHANGED hubVars
    /\ UNCHANGED extVars

\* The read is delivered: getActiveLock() parses it, checks pid and session and
\* probes the pid.  A stale lock leads to await clearLock(); every other outcome
\* returns, and the caller continues in the same turn of the event loop.
ReadDone(c) ==
    /\ c \in InFlight
    /\ c.op \in {"poll", "checkStatus"}
    /\ c.stage = "read"
    /\ UNCHANGED <<interval, listeners, lockFile, pidState>>
    /\ IF GetActiveLock(c.raw) = "stale"
       THEN /\ calls' = (calls (-) One(c)) (+) One(Call(c.op, "unlinking", c.raw))
            /\ UNCHANGED <<tuiActive, notes, statusResult, everInvalid>>
            /\ UNCHANGED piVars
            /\ UNCHANGED hubVars
            /\ UNCHANGED extVars
       ELSE /\ calls' = calls (-) One(c)
            /\ CallerTail(c.op, GetActiveLock(c.raw) = "lock")

\* The stage of a call whose clearLock() has taken effect: clearLock() is awaited
\* by getActiveLock() for a stale lock ("unlinking") and by killTui() after the
\* signal was sent ("killedUnlinking") or after sending it failed ("failedUnlinking").
AfterUnlink(stage) ==
    IF stage = "unlinking" THEN "unlinked"
    ELSE IF stage = "killedUnlinking" THEN "killedUnlinked"
    ELSE "failedUnlinked"

\* clearLock(): the unlink takes effect on disk.
UnlinkExec(c) ==
    /\ c \in InFlight
    /\ c.stage \in {"unlinking", "killedUnlinking", "failedUnlinking"}
    /\ lockFile' = NoFile
    /\ calls' = (calls (-) One(c)) (+) One(Call(c.op, AfterUnlink(c.stage), c.raw))
    /\ everInvalid' = TRUE
    /\ UNCHANGED <<interval, tuiActive, listeners, pidState, notes, statusResult>>
    /\ UNCHANGED piVars
    /\ UNCHANGED hubVars
    /\ UNCHANGED extVars

\* clearLock() is delivered: getActiveLock() returns null and the caller continues.
UnlinkDone(c) ==
    /\ c \in InFlight
    /\ c.op \in {"poll", "checkStatus"}
    /\ c.stage = "unlinked"
    /\ calls' = calls (-) One(c)
    /\ UNCHANGED <<interval, listeners, lockFile, pidState>>
    /\ CallerTail(c.op, FALSE)

\* The environment: the `assistant` alias, the TUI, any other process.
EnvWriteLock(content) ==
    /\ content # lockFile
    /\ lockFile' = content
    /\ everInvalid' = Hist(FALSE, content, pidState)
    /\ UNCHANGED <<interval, tuiActive, listeners, calls, pidState, notes, statusResult>>
    /\ UNCHANGED piVars
    /\ UNCHANGED hubVars
    /\ UNCHANGED extVars

EnvRemoveLock ==
    /\ lockFile # NoFile
    /\ lockFile' = NoFile
    /\ everInvalid' = TRUE
    /\ UNCHANGED <<interval, tuiActive, listeners, calls, pidState, notes, statusResult>>
    /\ UNCHANGED piVars
    /\ UNCHANGED hubVars
    /\ UNCHANGED extVars

EnvPidChange(p, st) ==
    /\ pidState[p] # st
    /\ pidState' = [pidState EXCEPT ![p] = st]
    /\ everInvalid' = Hist(FALSE, lockFile, pidState')
    /\ UNCHANGED <<interval, tuiActive, listeners, calls, lockFile, notes, statusResult>>
    /\ UNCHANGED piVars
    /\ UNCHANGED hubVars
    /\ UNCHANGED extVars

WatcherStep ==
    \/ PollTick
    \/ \E c \in InFlight : ReadDone(c)
    \/ \E c \in InFlight : UnlinkExec(c)
    \/ \E c \in InFlight : UnlinkDone(c)

EnvStep ==
    \/ \E content \in LockContents : EnvWriteLock(content)
    \/ EnvRemoveLock
    \/ \E p \in Pids, st \in {"alive", "eperm", "dead"} : EnvPidChange(p, st)

\* ------------------------------------------------ BroadcastManager (broadcast.ts)
\* Text is a sequence of one-character strings, so that length, slice and the
\* regular expressions of the code are computed and not assumed.
ClientIds == 1..MaxClients

ToolCallIds == {"a", "b"}

IsSpace(ch) == ch \in {" ", "\n"}

\* String.prototype.trim().
Trim(s) ==
    IF \A i \in 1..Len(s) : IsSpace(s[i])
    THEN <<>>
    ELSE LET first == CHOOSE i \in 1..Len(s) :
                          ~IsSpace(s[i]) /\ \A j \in 1..(i - 1) : IsSpace(s[j])
             last == CHOOSE i \in 1..Len(s) :
                          ~IsSpace(s[i]) /\ \A j \in (i + 1)..Len(s) : IsSpace(s[j])
         IN SubSeq(s, first, last)

\* String.prototype.slice(n) for 0 <= n.
SliceFrom(s, n) == SubSeq(s, n + 1, Len(s))

\* First position >= from where s holds ch, or 0.
IndexOf(s, ch, from) ==
    IF \E i \in from..Len(s) : s[i] = ch
    THEN CHOOSE i \in from..Len(s) : s[i] = ch /\ \A j \in from..(i - 1) : s[j] # ch
    ELSE 0

\* /!\[([^\]]*)\]\(([^)]+)\)/ anchored at position i: [close, end] of the match,
\* close being the position of "]" and end that of ")"; end = 0 when it fails.
ImageMatch(s, i) ==
    LET close == IndexOf(s, "]", i + 2)
        end == IF close = 0 THEN 0 ELSE IndexOf(s, ")", close + 2)
    IN IF /\ i + 1 <= Len(s)
          /\ s[i] = "!"
          /\ s[i + 1] = "["
          /\ close # 0
          /\ close + 1 <= Len(s)
          /\ s[close + 1] = "("
          /\ end >= close + 3
       THEN [close |-> close, end |-> end]
       ELSE [close |-> 0, end |-> 0]

RECURSIVE StripImages(_, _)
\* text.replace(regex, () => "") from position i on.
StripImages(s, i) ==
    IF i > Len(s) THEN <<>>
    ELSE IF ImageMatch(s, i).end # 0 THEN StripImages(s, ImageMatch(s, i).end + 1)
    ELSE <<s[i]>> \o StripImages(s, i + 1)

RECURSIVE ImagesIn(_, _)
\* The images the replace callback pushes, from position i on: those whose
\* trimmed source is not empty.
ImagesIn(s, i) ==
    IF i > Len(s) THEN <<>>
    ELSE LET m == ImageMatch(s, i)
         IN IF m.end = 0 THEN ImagesIn(s, i + 1)
            ELSE LET source == Trim(SubSeq(s, m.close + 2, m.end - 1))
                     alt == Trim(SubSeq(s, i + 2, m.close - 1))
                 IN (IF source = <<>> THEN <<>>
                     ELSE <<[source |-> source, alt |-> alt]>>)
                    \o ImagesIn(s, m.end + 1)

RECURSIVE CollapseNewlines(_, _)
\* replace(/\n{3,}/g, "\n\n"): run is the number of "\n" already kept in a row.
CollapseNewlines(s, run) ==
    IF s = <<>> THEN <<>>
    ELSE IF Head(s) = "\n"
    THEN (IF run >= 2 THEN <<>> ELSE <<"\n">>) \o CollapseNewlines(Tail(s), run + 1)
    ELSE <<Head(s)>> \o CollapseNewlines(Tail(s), 0)

ExtractMarkdownImages(text) ==
    [textOnly |-> Trim(CollapseNewlines(StripImages(text, 1), 0)),
     images |-> ImagesIn(text, 1)]

\* A tool's args: an object with some string fields, or not an object.
NoArgs == [obj |-> FALSE, command |-> "", path |-> "", pattern |-> "", url |-> "",
           query |-> ""]

Args(command, path, pattern, url, query) ==
    [obj |-> TRUE, command |-> command, path |-> path, pattern |-> pattern,
     url |-> url, query |-> query]

Tools == {[toolName |-> "bash", args |-> Args("ls", "", "", "", "")],
          [toolName |-> "read", args |-> Args("", "f", "", "", "q")]}

\* formatToolLabel; an absent or empty field is "".  filePath, filename and glob
\* are left out of the argument objects, the JSON dump is the token "json".
FormatToolLabel(toolName, args) ==
    IF toolName = "bash"
    THEN (IF args.obj /\ args.command # "" THEN <<"$ ", args.command>> ELSE <<"bash">>)
    ELSE IF ~args.obj THEN <<toolName>>
    ELSE IF args.path # "" THEN <<toolName, " ", args.path>>
    ELSE IF args.pattern # "" THEN <<toolName, " ", args.pattern>>
    ELSE IF args.url # "" THEN <<toolName, " ", args.url>>
    ELSE IF args.query # "" THEN <<toolName, " ", args.query>>
    ELSE <<toolName, " ", "json">>

\* A tool's result: null, a string, or an object with some of the fields text,
\* stdout, stderr and content (parts of type text or image).
NullResult == [kind |-> "null", has |-> {}, text |-> <<>>, stdout |-> <<>>,
               stderr |-> <<>>, content |-> <<>>]

Results ==
    {NullResult,
     [NullResult EXCEPT !.kind = "object", !.has = {"stdout", "stderr"},
                        !.stdout = <<"o">>, !.stderr = <<"e">>],
     [NullResult EXCEPT !.kind = "object", !.has = {"content"},
                        !.content = <<[type |-> "text", data |-> <<"t", " ">>],
                                      [type |-> "image", data |-> <<"d">>]>>]}

RECURSIVE JoinLines(_)
\* Array.prototype.join("\n").
JoinLines(parts) ==
    IF parts = <<>> THEN <<>>
    ELSE IF Len(parts) = 1 THEN parts[1]
    ELSE parts[1] \o <<"\n">> \o JoinLines(Tail(parts))

TextOfPart(part) == part.data

IsTextPart(part) == part.type = "text"

IsImagePart(part) == part.type = "image" /\ part.data # <<>>

\* The text parts of result.content, in order.
TextParts(content) ==
    LET parts == SelectSeq(content, IsTextPart)
    IN [i \in 1..Len(parts) |-> TextOfPart(parts[i])]

\* extractToolResultText; the JSON dump is the one-token text "json".
ExtractToolResultText(result) ==
    IF result.kind = "string" THEN result.text
    ELSE IF result.kind = "null" THEN <<>>
    ELSE IF "text" \in result.has THEN result.text
    ELSE IF "stdout" \in result.has
    THEN result.stdout \o (IF "stderr" \in result.has /\ result.stderr # <<>>
                           THEN <<"\n">> \o result.stderr ELSE <<>>)
    ELSE IF "content" \in result.has
            /\ Len(TextParts(result.content)) > 0
    THEN JoinLines(TextParts(result.content))
    ELSE <<"json">>

maxChars == 1800

maxLines == 30

TruncationMark == <<"\n", "...", " ", "(", "t", "r", "u", "n", "c", "a", "t", "e", "d", ")">>

Newlines(s) == {i \in 1..Len(s) : s[i] = "\n"}

\* truncateToolOutput: at most maxLines lines, then at most maxChars characters,
\* cut at the last newline when that lies in the second half.
TruncateToolOutput(text) ==
    LET normalized == Trim(text)
        tooManyLines == Cardinality(Newlines(normalized)) + 1 > maxLines
        lineCut == CHOOSE i \in Newlines(normalized) :
                       Cardinality({j \in Newlines(normalized) : j <= i}) = maxLines
        byLines == IF tooManyLines
                   THEN SubSeq(normalized, 1, lineCut - 1) \o TruncationMark
                   ELSE normalized
        tooManyChars == Len(byLines) > maxChars
        inside == {i \in Newlines(byLines) : i <= maxChars}
        lastNewline == IF inside = {} THEN 0
                       ELSE CHOOSE i \in inside : \A j \in inside : j <= i
        cutPoint == IF 2 * (lastNewline - 1) > maxChars THEN lastNewline - 1 ELSE maxChars
    IN IF normalized = <<>> THEN [text |-> <<>>, wasTruncated |-> FALSE]
       ELSE [text |-> IF tooManyChars THEN SubSeq(byLines, 1, cutPoint) \o TruncationMark
                      ELSE byLines,
             wasTruncated |-> tooManyLines \/ tooManyChars]

\* extractImagesFromToolResult: the data: URLs of the image parts of result.content.
ExtractImagesFromToolResult(result) ==
    IF result.kind # "object" \/ "content" \notin result.has THEN <<>>
    ELSE LET parts == SelectSeq(result.content, IsImagePart)
         IN [i \in 1..Len(parts) |-> TextOfPart(parts[i])]

\* A message handed to broadcast().
Msg(type, id, text, aux) == [type |-> type, id |-> id, text |-> text, aux |-> aux]

\* The image broadcasts of tool_execution_end, one per data: URL.
ImageMessages(images) ==
    [i \in 1..Len(images) |->
        Msg("image", "", <<"data:">> \o images[i], "Generated image")]

\* The image broadcasts of agent_end, one per markdown image of the prose.
MarkdownImageMessages(images) ==
    [i \in 1..Len(images) |-> Msg("image", "", images[i].source, "")]

Registered == {clients[i] : i \in DOMAIN clients}

\* What send() of a subscriber can do with a message: resolve, reject (a
\* function declared async), or throw before returning (a plain function).
SendOutcomes(c) == IF sendKind[c] = "async" THEN {"ok", "reject"} ELSE {"ok", "throw"}

Outcomes ==
    {oc \in [ClientIds -> {"ok", "reject", "throw"}] :
        \A c \in ClientIds :
            IF c \in Registered /\ available[c] THEN oc[c] \in SendOutcomes(c)
            ELSE oc[c] = "ok"}

RECURSIVE Deliver(_, _, _, _, _)
\* The for loop of broadcast(message, excludeClientId) from entry k of the Map on:
\* skip the excluded and the unavailable, call send(); a throw ends the loop.
\* [sent, threw] after the loop.
Deliver(message, excludeClientId, oc, k, s) ==
    IF k > Len(clients) THEN [sent |-> s, threw |-> FALSE]
    ELSE LET id == clients[k]
         IN IF (excludeClientId # 0 /\ id = excludeClientId) \/ ~available[id]
            THEN Deliver(message, excludeClientId, oc, k + 1, s)
            ELSE IF oc[id] = "throw"
            THEN [sent |-> [s EXCEPT ![id] = Append(@, message)], threw |-> TRUE]
            ELSE Deliver(message, excludeClientId, oc, k + 1,
                         [s EXCEPT ![id] = Append(@, message)])

RECURSIVE BroadcastAll(_, _, _, _)
\* The broadcast() calls of one handler, in order; none is awaited.
BroadcastAll(messages, excludeClientId, oc, acc) ==
    IF messages = <<>> THEN acc
    ELSE LET r == Deliver(Head(messages), excludeClientId, oc, 1, acc.sent)
         IN BroadcastAll(Tail(messages), excludeClientId, oc,
                         [sent |-> r.sent, threw |-> acc.threw \/ r.threw])

\* this.clients after broadcast() calls in which the sends of unexcluded,
\* available subscribers failed as oc says, if a failed send unregistered.
ClientsAfterBroadcast_DropFailed(oc) == SelectSeq(clients, LAMBDA c : oc[c] = "ok")

\* this.clients after broadcast() calls: the loop only reads the Map, and the
\* .catch of a rejected send only logs.
ClientsAfterBroadcast(oc) == clients

\* The effect of a handler's broadcast() calls on the subscribers.
Emit(messages, excludeClientId, oc) ==
    LET r == BroadcastAll(messages, excludeClientId, oc, [sent |-> sent, threw |-> FALSE])
    IN /\ hubLog' = hubLog \o messages
       /\ clients' = ClientsAfterBroadcast(oc)
       /\ sent' = r.sent
       /\ bcastExclude' = IF messages = <<>> THEN bcastExclude ELSE excludeClientId
       /\ bcastResult' = IF messages = <<>> THEN bcastResult
                         ELSE IF r.threw THEN "rejected" ELSE "resolved"

HubInit ==
    /\ currentText = <<>>
    /\ proseStartOffset = 0
    /\ insideTool = FALSE
    /\ currentThinking = <<>>
    /\ isThinking = FALSE
    /\ currentPrompt = "null"
    /\ clients = <<>>
    /\ available = [c \in ClientIds |-> FALSE]
    /\ sendKind = [c \in ClientIds |-> "async"]
    /\ sent = [c \in ClientIds |-> <<>>]
    /\ hubLog = <<>>
    /\ bcastExclude = 0
    /\ bcastResult = "none"
    /\ nEvents = 0
    /\ lastEvent = [type |-> "none", id |-> "", text |-> <<>>]
    /\ upOpen = {}
    /\ upBlock = <<>>
    /\ sinceToolEnd = <<>>
    /\ turnOpen = FALSE
    /\ regAt = [c \in ClientIds |-> 0]
    /\ regMid = [c \in ClientIds |-> FALSE]

registryVars == <<clients, available, sendKind, regAt, regMid>>

closureVars == <<currentText, proseStartOffset, insideTool, currentThinking,
                 isThinking, currentPrompt>>

upstreamVars == <<upOpen, upBlock, sinceToolEnd, turnOpen>>

\* An upstream event is handled.
Handled(type, id, text) ==
    /\ nEvents < MaxEvents
    /\ nEvents' = nEvents + 1
    /\ lastEvent' = [type |-> type, id |-> id, text |-> text]
    /\ UNCHANGED <<available, sendKind, regAt, regMid>>
    /\ UNCHANGED watcherVars
    /\ UNCHANGED piVars
    /\ UNCHANGED extVars

\* registerClient(client): this.clients.set(client.id, client).
RegistryAdd(c, kind, isAvailable) ==
    /\ clients' = Append(clients, c)
    /\ available' = [available EXCEPT ![c] = isAvailable]
    /\ sendKind' = [sendKind EXCEPT ![c] = kind]
    /\ sent' = [sent EXCEPT ![c] = <<>>]
    /\ regAt' = [regAt EXCEPT ![c] = Len(hubLog)]
    /\ regMid' = [regMid EXCEPT ![c] = turnOpen]

\* unregisterClient(clientId) if it removed nothing.
RegistryRemove_Keep(gone) == UNCHANGED <<registryVars, sent>>

\* unregisterClient(clientId) for each id of gone: this.clients.delete(clientId),
\* which does nothing for an id that is not in the Map.
RegistryRemove(gone) ==
    /\ clients' = SelectSeq(clients, LAMBDA x : x \notin gone)
    /\ available' = [c \in ClientIds |-> IF c \in gone THEN FALSE ELSE available[c]]
    /\ sendKind' = [c \in ClientIds |-> IF c \in gone THEN "async" ELSE sendKind[c]]
    /\ sent' = [c \in ClientIds |-> IF c \in gone THEN <<>> ELSE sent[c]]
    /\ regAt' = [c \in ClientIds |-> IF c \in gone THEN 0 ELSE regAt[c]]
    /\ regMid' = [c \in ClientIds |-> IF c \in gone THEN FALSE ELSE regMid[c]]

\* registerClient(client) for a client that is not in the Map.
RegisterClient(c, kind, isAvailable) ==
    /\ c \notin Registered
    /\ RegistryAdd(c, kind, isAvailable)
    /\ UNCHANGED <<hubLog, bcastExclude, bcastResult, nEvents, lastEvent>>
    /\ UNCHANGED closureVars
    /\ UNCHANGED upstreamVars
    /\ UNCHANGED watcherVars
    /\ UNCHANGED piVars
    /\ UNCHANGED extVars

\* unregisterClient(clientId) for a client that is in the Map.
UnregisterClient(c) ==
    /\ c \in Registered
    /\ RegistryRemove({c})
    /\ UNCHANGED <<hubLog, bcastExclude, bcastResult, nEvents, lastEvent>>
    /\ UNCHANGED closureVars
    /\ UNCHANGED upstreamVars
    /\ UNCHANGED watcherVars
    /\ UNCHANGED piVars
    /\ UNCHANGED extVars

\* What isAvailable() of a registered subscriber returns changes: the socket
\* leaves OPEN, the Telegram context is set or cleared.
SetAvailable(c, isAvailable) ==
    /\ c \in Registered
    /\ available[c] # isAvailable
    /\ available' = [available EXCEPT ![c] = isAvailable]
    /\ UNCHANGED <<clients, sendKind, sent, regAt, regMid, hubLog, bcastExclude,
                   bcastResult, nEvents, lastEvent>>
    /\ UNCHANGED closureVars
    /\ UNCHANGED upstreamVars
    /\ UNCHANGED watcherVars
    /\ UNCHANGED piVars
    /\ UNCHANGED extVars

\* A caller of broadcast(message, excludeClientId), as the heartbeat's
\* proactive message in index.ts.
Broadcast(message, excludeClientId, oc) ==
    /\ Handled("broadcast", "", message.text)
    /\ Emit(<<message>>, excludeClientId, oc)
    /\ UNCHANGED closureVars
    /\ UNCHANGED upstreamVars

\* tool_execution_start.
ToolExecutionStart(id, tool, oc) ==
    /\ id \notin upOpen
    /\ Handled("tool_execution_start", id, <<>>)
    /\ insideTool' = TRUE
    /\ Emit(<<Msg("tool_start", id, FormatToolLabel(tool.toolName, tool.args),
                  tool.toolName)>>, 0, oc)
    /\ upOpen' = upOpen \cup {id}
    /\ turnOpen' = TRUE
    /\ UNCHANGED <<currentText, proseStartOffset, currentThinking, isThinking,
                   currentPrompt, upBlock, sinceToolEnd>>

\* The messages of tool_execution_end with tool_end ahead of tool_output.
ToolEndMessages_EndFirst(id, toolName, result) ==
    ImageMessages(ExtractImagesFromToolResult(result))
    \o <<Msg("tool_end", id, <<>>, toolName),
         Msg("tool_output", id, TruncateToolOutput(ExtractToolResultText(result)).text,
             IF TruncateToolOutput(ExtractToolResultText(result)).wasTruncated
             THEN "truncated" ELSE "")>>

\* The messages tool_execution_end broadcasts: the images of the result, the
\* output, the end.
ToolEndMessages(id, toolName, result) ==
    ImageMessages(ExtractImagesFromToolResult(result))
    \o <<Msg("tool_output", id, TruncateToolOutput(ExtractToolResultText(result)).text,
             IF TruncateToolOutput(ExtractToolResultText(result)).wasTruncated
             THEN "truncated" ELSE ""),
         Msg("tool_end", id, <<>>, toolName)>>

\* tool_execution_end of a call that was started.
ToolExecutionEnd(id, toolName, result, oc) ==
    /\ id \in upOpen
    /\ Handled("tool_execution_end", id, <<>>)
    /\ proseStartOffset' = Len(currentText)
    /\ Emit(ToolEndMessages(id, toolName, result), 0, oc)
    /\ insideTool' = FALSE
    /\ upOpen' = upOpen \ {id}
    /\ sinceToolEnd' = <<>>
    /\ turnOpen' = TRUE
    /\ UNCHANGED <<currentText, currentThinking, isThinking, currentPrompt, upBlock>>

Deltas == {<<"a">>, <<"b", " ">>, <<"!", "[", "k", "]", "(", "u", ")">>}

\* message_update, text_delta.
TextDelta(delta, oc) ==
    /\ Handled("text_delta", "", delta)
    /\ currentText' = currentText \o delta
    /\ IF ~insideTool
       THEN Emit(<<Msg("text_delta", "", delta, "")>>, 0, oc)
       ELSE Emit(<<>>, 0, oc)
    /\ upBlock' = upBlock \o delta
    /\ sinceToolEnd' = sinceToolEnd \o delta
    /\ turnOpen' = TRUE
    /\ UNCHANGED <<proseStartOffset, insideTool, currentThinking, isThinking,
                   currentPrompt, upOpen>>

\* message_update, text_done: the agent closes the text block it was streaming
\* and sends the block's text.
TextDone ==
    /\ upBlock # <<>>
    /\ Handled("text_done", "", upBlock)
    /\ UNCHANGED clients
    /\ currentText' = upBlock
    /\ upBlock' = <<>>
    /\ turnOpen' = TRUE
    /\ UNCHANGED <<proseStartOffset, insideTool, currentThinking, isThinking,
                   currentPrompt, upOpen, sinceToolEnd>>
    /\ UNCHANGED <<sent, hubLog, bcastExclude, bcastResult>>

\* message_update, thinking_delta.
ThinkingDelta(delta, oc) ==
    /\ Handled("thinking_delta", "", delta)
    /\ currentThinking' = currentThinking \o delta
    /\ isThinking' = TRUE
    /\ Emit(<<Msg("thinking_delta", "", delta, "")>>, 0, oc)
    /\ turnOpen' = TRUE
    /\ UNCHANGED <<currentText, proseStartOffset, insideTool, currentPrompt,
                   upOpen, upBlock, sinceToolEnd>>

\* message_update, thinking_done.
ThinkingDone(oc) ==
    /\ Handled("thinking_done", "", <<>>)
    /\ isThinking' = FALSE
    /\ Emit(<<Msg("thinking_done", "", currentThinking, "")>>, 0, oc)
    /\ currentThinking' = <<>>
    /\ turnOpen' = TRUE
    /\ UNCHANGED <<currentText, proseStartOffset, insideTool, currentPrompt,
                   upOpen, upBlock, sinceToolEnd>>

\* const proseResponse of agent_end.
ProseResponse ==
    IF proseStartOffset > 0 THEN SliceFrom(currentText, proseStartOffset) ELSE currentText

\* agent_end: the images of the prose, done, and the reset.  usage is the
\* token usage of the event's messages, here present or not.
AgentEnd(usage, oc) ==
    /\ Handled("agent_end", "", <<>>)
    /\ Emit(MarkdownImageMessages(ExtractMarkdownImages(ProseResponse).images)
            \o <<Msg("done", "", ExtractMarkdownImages(ProseResponse).textOnly, usage)>>,
            0, oc)
    /\ currentText' = <<>>
    /\ proseStartOffset' = 0
    /\ insideTool' = FALSE
    /\ currentPrompt' = "null"
    /\ upOpen' = {}
    /\ upBlock' = <<>>
    /\ sinceToolEnd' = <<>>
    /\ turnOpen' = FALSE
    /\ UNCHANGED <<currentThinking, isThinking>>


\* --------------------------- killTui (session-watcher.ts), handleTakeover
KillOps == {"killTui", "takeover"}

NoResult == [set |-> FALSE, killed |-> FALSE, pid |-> 0]

\* { killed, pid? } as killTui() returns it; pid 0 stands for no pid.
KillResult(killed, pid) == [set |-> TRUE, killed |-> killed, pid |-> pid]

NoReply == [set |-> FALSE, ok |-> FALSE, killed |-> FALSE, pid |-> 0]

KillInit ==
    /\ killResult = NoResult
    /\ signals = <<>>
    /\ nKills = 0
    /\ takeoverReply = NoReply

\* A caller of killTui(): up to readFile of getActiveLock().
KillTuiCall ==
    /\ nKills < MaxKills
    /\ BagCardinality(calls) < MaxCalls
    /\ nKills' = nKills + 1
    /\ calls' = calls (+) One(Call("killTui", "read", lockFile))
    /\ UNCHANGED <<interval, tuiActive, listeners, lockFile, pidState, notes,
                   statusResult, everInvalid>>
    /\ UNCHANGED <<killResult, signals, takeoverReply>>
    /\ UNCHANGED piVars
    /\ UNCHANGED hubVars
    /\ UNCHANGED sessVars
    /\ UNCHANGED rpcVars
    /\ UNCHANGED gwVars

\* handleTakeover(pi, sessionWatcher): up to readFile of killTui()'s getActiveLock().
TakeoverCall ==
    /\ nKills < MaxKills
    /\ BagCardinality(calls) < MaxCalls
    /\ nKills' = nKills + 1
    /\ calls' = calls (+) One(Call("takeover", "read", lockFile))
    /\ UNCHANGED <<interval, tuiActive, listeners, lockFile, pidState, notes,
                   statusResult, everInvalid>>
    /\ UNCHANGED <<killResult, signals, takeoverReply>>
    /\ UNCHANGED piVars
    /\ UNCHANGED hubVars
    /\ UNCHANGED sessVars
    /\ UNCHANGED rpcVars
    /\ UNCHANGED gwVars

\* killTui() returns { killed, pid } to its caller.  A direct caller gets the
\* result; handleTakeover sleeps one second when killed, else goes on to
\* pi.reload(), whose stop() runs at once.
KillReturn(c, killed, pid) ==
    IF c.op = "killTui"
    THEN /\ calls' = calls (-) One(c)
         /\ killResult' = KillResult(killed, pid)
         /\ UNCHANGED piVars
    ELSE /\ killResult' = killResult
         /\ IF killed
            THEN /\ calls' = (calls (-) One(c)) (+) One(Call(c.op, "waitKilled", c.raw))
                 /\ UNCHANGED piVars
            ELSE /\ calls' = (calls (-) One(c)) (+) One(Call(c.op, "reloadNotKilled", c.raw))
                 /\ process' = StopEffect.process
                 /\ children' = StopEffect.children
                 /\ lastCall' = "reload"
                 /\ UNCHANGED <<promises, restartTimers, reloads, mainPc>>

\* The read of killTui()'s getActiveLock() is delivered.  No lock: killTui()
\* returns { killed: false }.  A stale lock: await clearLock().  A lock:
\* process.kill(lock.pid, "SIGTERM") in the same turn; the process may have ended
\* since the probe (died), or the signal may not be permitted (EPERM), and then
\* the call throws; either way await clearLock().
KillReadDone(c, died) ==
    /\ c \in InFlight
    /\ c.op \in KillOps
    /\ c.stage = "read"
    /\ UNCHANGED <<interval, tuiActive, listeners, lockFile, notes, statusResult>>
    /\ UNCHANGED <<nKills, takeoverReply>>
    /\ UNCHANGED hubVars
    /\ UNCHANGED sessVars
    /\ UNCHANGED rpcVars
    /\ UNCHANGED gwVars
    /\ IF GetActiveLock(c.raw) = "null"
       THEN /\ ~died
            /\ KillReturn(c, FALSE, 0)
            /\ UNCHANGED <<pidState, everInvalid, signals>>
       ELSE IF GetActiveLock(c.raw) = "stale"
       THEN /\ ~died
            /\ calls' = (calls (-) One(c)) (+) One(Call(c.op, "unlinking", c.raw))
            /\ UNCHANGED <<pidState, everInvalid, signals, killResult>>
            /\ UNCHANGED piVars
       ELSE IF pidState[c.raw.pid] = "alive" /\ ~died
       THEN /\ signals' = Append(signals, c.raw.pid)
            /\ calls' = (calls (-) One(c)) (+) One(Call(c.op, "killedUnlinking", c.raw))
            /\ UNCHANGED <<pidState, everInvalid, killResult>>
            /\ UNCHANGED piVars
       ELSE /\ died => pidState[c.raw.pid] = "alive"
            /\ pidState' = IF died THEN [pidState EXCEPT ![c.raw.pid] = "dead"] ELSE pidState
            /\ everInvalid' = Hist(FALSE, lockFile, pidState')
            /\ calls' = (calls (-) One(c)) (+) One(Call(c.op, "failedUnlinking", c.raw))
            /\ UNCHANGED <<signals, killResult>>
            /\ UNCHANGED piVars

\* clearLock() is delivered to killTui(), or to its getActiveLock(): killTui() returns.
KillUnlinkDone(c) ==
    /\ c \in InFlight
    /\ c.op \in KillOps
    /\ c.stage \in {"unlinked", "killedUnlinked", "failedUnlinked"}
    /\ KillReturn(c, c.stage = "killedUnlinked",
                  IF c.stage = "unlinked" THEN 0 ELSE c.raw.pid)
    /\ UNCHANGED <<interval, tuiActive, listeners, lockFile, pidState, notes,
                   statusResult, everInvalid>>
    /\ UNCHANGED <<signals, nKills, takeoverReply>>
    /\ UNCHANGED hubVars
    /\ UNCHANGED sessVars
    /\ UNCHANGED rpcVars
    /\ UNCHANGED gwVars

\* handleTakeover after its one second sleep: pi.reload(), whose stop() runs at once.
TakeoverWaitDone(c) ==
    /\ c \in InFlight
    /\ c.stage = "waitKilled"
    /\ calls' = (calls (-) One(c)) (+) One(Call(c.op, "reloadKilled", c.raw))
    /\ process' = StopEffect.process
    /\ children' = StopEffect.children
    /\ lastCall' = "reload"
    /\ UNCHANGED <<promises, restartTimers, reloads, mainPc>>
    /\ UNCHANGED <<interval, tuiActive, listeners, lockFile, pidState, notes,
                   statusResult, everInvalid>>
    /\ UNCHANGED killVars
    /\ UNCHANGED hubVars
    /\ UNCHANGED sessVars
    /\ UNCHANGED rpcVars
    /\ UNCHANGED gwVars

\* pi.reload() of handleTakeover after its sleep: start(), up to its await.
TakeoverReloadStart(c) ==
    /\ c \in InFlight
    /\ c.stage \in {"reloadKilled", "reloadNotKilled"}
    /\ IsRunning \/ CanSpawn
    /\ calls' = (calls (-) One(c)) (+)
                One(Call(c.op, IF c.stage = "reloadKilled" THEN "startKilled"
                               ELSE "startNotKilled", c.raw))
    /\ process' = StartEffect.process
    /\ children' = StartEffect.children
    /\ lastCall' = "reload_done"
    /\ UNCHANGED <<promises, restartTimers, reloads, mainPc>>
    /\ UNCHANGED <<interval, tuiActive, listeners, lockFile, pidState, notes,
                   statusResult, everInvalid>>
    /\ UNCHANGED killVars
    /\ UNCHANGED hubVars
    /\ UNCHANGED sessVars
    /\ UNCHANGED rpcVars
    /\ UNCHANGED gwVars

\* start() and reload() return: handleTakeover replies "Session reclaimed",
\* with "Killed TUI (PID n)" when killed and "No active TUI found" when not.
TakeoverReply(c) ==
    /\ c \in InFlight
    /\ c.stage \in {"startKilled", "startNotKilled"}
    /\ calls' = calls (-) One(c)
    /\ takeoverReply' = [set |-> TRUE, ok |-> TRUE, killed |-> c.stage = "startKilled",
                         pid |-> IF c.stage = "startKilled" THEN c.raw.pid ELSE 0]
    /\ UNCHANGED <<interval, tuiActive, listeners, lockFile, pidState, notes,
                   statusResult, everInvalid>>
    /\ UNCHANGED <<killResult, signals, nKills>>
    /\ UNCHANGED piVars
    /\ UNCHANGED hubVars
    /\ UNCHANGED sessVars
    /\ UNCHANGED rpcVars
    /\ UNCHANGED gwVars

KillStep ==
    \/ KillTuiCall
    \/ TakeoverCall
    \/ \E c \in InFlight, died \in BOOLEAN : KillReadDone(c, died)
    \/ \E c \in InFlight : UnlinkExec(c)
    \/ \E c \in InFlight : KillUnlinkDone(c)
    \/ \E c \in InFlight : TakeoverWaitDone(c)
    \/ \E c \in InFlight : TakeoverReloadStart(c)
    \/ \E c \in InFlight : TakeoverReply(c)

\* --------------------------------------- SessionManager (session-manager.ts)
\* An archive path: the kind of the name ("pre-compact" or "manual") and its
\* timestamp; basename and directory are the same for every archive.
NoPath == [kind |-> "none", ts |-> 0]

\* new Date().toISOString().replace(/[:.]/g, "-").slice(0, 19): the first 19
\* characters end with the seconds, the fraction of the second is cut off.
Timestamp(t) == t \div TicksPerSecond

ArchiveName(kind, t) == [kind |-> kind, ts |-> Timestamp(t)]

\* copyFile(this.sessionPath, archivePath): creates or overwrites the destination.
CopyFile(path) ==
    {a \in archives : a.name # path} \cup {[name |-> path, content |-> sessionFile]}

\* What can fail in the try body: mkdir (only attempted when the directory is
\* missing), copyFile, the onArchive callback.
Failures == {"none", "mkdir", "copy", "onArchive"}

\* The try body shared by archiveBeforeCompaction() and archiveAndStartNew() up
\* to and including the onArchive callback: the directory and files it leaves,
\* the archive path, and whether an exception was thrown.
Archive(kind, fail) ==
    IF fail = "mkdir"
    THEN [threw |-> TRUE, dir |-> archiveDir, files |-> archives, path |-> NoPath]
    ELSE IF fail = "copy"
    THEN [threw |-> TRUE, dir |-> TRUE, files |-> archives, path |-> NoPath]
    ELSE [threw |-> fail = "onArchive", dir |-> TRUE,
          files |-> CopyFile(ArchiveName(kind, clock)),
          path |-> ArchiveName(kind, clock)]

SessInit ==
    /\ clock = 0
    /\ archiveDir = FALSE
    /\ archives = {}
    /\ sessionFile = 0
    /\ compactionCount = 0
    /\ endsSince = 0
    /\ archiveLog = <<>>
    /\ handlerFailed = FALSE
    /\ newCall = [state |-> "idle", req |-> 0, path |-> NoPath, archived |-> NoPath,
                  error |-> "none"]

\* archiveBeforeCompaction() without its try/catch.
ArchiveBeforeCompaction_NoCatch(a) == [threw |-> a.threw, path |-> a.path]

\* archiveBeforeCompaction(): the archive path, or null from the catch block.
ArchiveBeforeCompaction(a) ==
    [threw |-> FALSE, path |-> IF a.threw THEN NoPath ELSE a.path]

\* The "event" handler on auto_compaction_start: await archiveBeforeCompaction().
\* An exception leaving the async handler is an unhandled rejection.
OnCompactionStart(fail) ==
    /\ ~handlerFailed
    /\ Len(archiveLog) < MaxArchives
    /\ fail = "mkdir" => ~archiveDir
    /\ LET a == Archive("pre-compact", fail)
           r == ArchiveBeforeCompaction(a)
       IN  /\ archiveDir' = a.dir
           /\ archives' = a.files
           /\ handlerFailed' = r.threw
           /\ archiveLog' = Append(archiveLog,
                  [path |-> r.path, content |-> sessionFile, fail |-> fail,
                   threw |-> r.threw])
    /\ UNCHANGED <<clock, sessionFile, compactionCount, endsSince, newCall>>
    /\ UNCHANGED <<watcherVars, piVars, hubVars, killVars, rpcVars, gwVars>>

\* The "event" handler on auto_compaction_end: this.compactionCount++.
OnCompactionEnd ==
    /\ ~handlerFailed
    /\ compactionCount < MaxCompactions
    /\ compactionCount' = compactionCount + 1
    /\ endsSince' = endsSince + 1
    /\ UNCHANGED <<clock, archiveDir, archives, sessionFile, archiveLog, handlerFailed,
                   newCall>>
    /\ UNCHANGED <<watcherVars, piVars, hubVars, killVars, rpcVars, gwVars>>

\* archiveAndStartNew() up to its await of this.pi.newSession(archivePath):
\* sendAndWait throws when the client is not running, otherwise the request is
\* outstanding.
ArchiveAndStartNew(fail) ==
    /\ ~handlerFailed
    /\ newCall.state # "waiting"
    /\ fail = "mkdir" => ~archiveDir
    /\ Len(promises) < MaxReq
    /\ LET a == Archive("manual", fail)
       IN  /\ archiveDir' = a.dir
           /\ archives' = a.files
           /\ IF a.threw
              THEN /\ newCall' = [state |-> "done", req |-> 0, path |-> a.path,
                                  archived |-> NoPath, error |-> "archive"]
                   /\ UNCHANGED piVars
              ELSE IF ~IsRunning
              THEN /\ newCall' = [state |-> "done", req |-> 0, path |-> a.path,
                                  archived |-> NoPath, error |-> "not_running"]
                   /\ lastCall' = "request_not_running"
                   /\ UNCHANGED <<process, children, promises, restartTimers, reloads,
                                  mainPc>>
              ELSE /\ newCall' = [state |-> "waiting", req |-> Len(promises) + 1,
                                  path |-> a.path, archived |-> NoPath,
                                  error |-> "none"]
                   /\ promises' = Append(promises,
                          NewPromise("request", Len(promises) + 1))
                   /\ lastCall' = "request"
                   /\ UNCHANGED <<process, children, restartTimers, reloads, mainPc>>
    /\ UNCHANGED <<clock, sessionFile, compactionCount, endsSince,
          archiveLog, handlerFailed>>
    /\ UNCHANGED <<watcherVars, hubVars, killVars, rpcVars, gwVars>>

\* this.compactionCount after archiveAndStartNew(), if every outcome reset it.
NewSessionCount_AlwaysReset(success, count) == 0

\* this.compactionCount after archiveAndStartNew(): resetCompactionCount() runs
\* only past the success check.
NewSessionCount(success, count) == IF success THEN 0 ELSE count

\* archiveAndStartNew() after the await: a resolved request carries success =
\* true (sendAndWait rejects every other response), a rejection lands in catch.
NewSessionSettled ==
    /\ newCall.state = "waiting"
    /\ promises[newCall.req].state # "pending"
    /\ IF promises[newCall.req].state = "resolved"
       THEN newCall' = [newCall EXCEPT !.state = "done", !.archived = newCall.path]
       ELSE newCall' = [newCall EXCEPT !.state = "done", !.error = "rejected"]
    /\ compactionCount' =
           NewSessionCount(promises[newCall.req].state = "resolved", compactionCount)
    /\ endsSince' = IF promises[newCall.req].state = "resolved" THEN 0 ELSE endsSince
    /\ UNCHANGED <<clock, archiveDir, archives, sessionFile, archiveLog, handlerFailed>>
    /\ UNCHANGED <<watcherVars, piVars, hubVars, killVars, rpcVars, gwVars>>

\* The wall clock advances.
Tick ==
    /\ clock < MaxClock
    /\ clock' = clock + 1
    /\ UNCHANGED <<archiveDir, archives, sessionFile, compactionCount, endsSince,
          archiveLog,
                   handlerFailed, newCall>>
    /\ UNCHANGED <<watcherVars, piVars, hubVars, killVars, rpcVars, gwVars>>

\* The agent appends to the session file.
SessionWrite ==
    /\ sessionFile < MaxContent
    /\ sessionFile' = sessionFile + 1
    /\ UNCHANGED <<clock, archiveDir, archives, compactionCount, endsSince,
          archiveLog,
                   handlerFailed, newCall>>
    /\ UNCHANGED <<watcherVars, piVars, hubVars, killVars, rpcVars, gwVars>>

SessionStep ==
    \/ \E fail \in Failures : OnCompactionStart(fail)
    \/ OnCompactionEnd
    \/ \E fail \in Failures : ArchiveAndStartNew(fail)
    \/ NewSessionSettled
    \/ Tick
    \/ SessionWrite

\* ------------------------------------------- BroadcastManager.getState()
NoStateCall == [state |-> "idle", reqState |-> 0, reqStats |-> 0, st |-> "none",
                stats |-> "none", msg |-> [type |-> "none"]]

\* The message getState() returns for the two settled queries, with the
\* .catch(() => null) on the session-stats promise removed.
GetStateResult_NoStatsCatch(st, stats) ==
    IF st = "rejected" \/ stats = "rejected"
    THEN [type |-> "state", model |-> FALSE, contextTokens |-> FALSE,
          isProcessing |-> FALSE]
    ELSE [type |-> "state", model |-> TRUE, contextTokens |-> TRUE,
          isProcessing |-> FALSE]

\* The message getState() returns: Promise.all rejects when the state query
\* rejects (catch block: isProcessing only); a rejected session-stats query
\* was turned into null, so contextTokens is undefined.  model / contextTokens
\* tell whether the field is defined.
GetStateResult(st, stats) ==
    IF st = "rejected"
    THEN [type |-> "state", model |-> FALSE, contextTokens |-> FALSE,
          isProcessing |-> FALSE]
    ELSE [type |-> "state", model |-> TRUE, contextTokens |-> stats = "resolved",
          isProcessing |-> FALSE]

NoId == <<"none", 0>>

NoStartCall == [state |-> "idle", child |-> 0, result |-> "none", childAtReturn |-> "none",
                running |-> FALSE]

RpcInit ==
    /\ stateCall = NoStateCall
    /\ promptRet = [set |-> FALSE, ids |-> {}]
    /\ watched = {}
    /\ lastSend = [n |-> 0, result |-> "none", child |-> 0, lines |-> 0]
    /\ lastLine = [n |-> 0, id |-> NoId, success |-> FALSE]
    /\ startCall = NoStartCall

\* getState() up to its await: pi.getState() and pi.getSessionStats() are both
\* called; sendAndWait throws in each when the client is not running.
GetStateCall ==
    /\ stateCall.state # "waiting"
    /\ Len(promises) + 2 <= MaxReq
    /\ IF IsRunning
       THEN /\ promises' = promises \o
                   <<NewPromise("request", Len(promises) + 1),
                     NewPromise("request", Len(promises) + 2)>>
            /\ lastCall' = "request"
            /\ stateCall' = [NoStateCall EXCEPT !.state = "waiting",
                                !.reqState = Len(promises) + 1,
                                !.reqStats = Len(promises) + 2]
       ELSE /\ promises' = promises
            /\ lastCall' = "request_not_running"
            /\ stateCall' = [NoStateCall EXCEPT !.state = "done", !.st = "rejected",
                                !.stats = "rejected",
                                !.msg = GetStateResult("rejected", "rejected")]
    /\ UNCHANGED <<process, children, restartTimers, reloads, mainPc>>
    /\ UNCHANGED <<promptRet, watched, lastSend, lastLine, startCall>>
    /\ UNCHANGED <<watcherVars, hubVars, killVars, sessVars, gwVars>>

\* getState() after the await: Promise.all settles when the state query
\* rejects, or when both queries have settled.
GetStateSettled ==
    /\ stateCall.state = "waiting"
    /\ LET st == promises[stateCall.reqState].state
           stats == promises[stateCall.reqStats].state
       IN  /\ st = "rejected" \/ (st = "resolved" /\ stats # "pending")
           /\ stateCall' = [stateCall EXCEPT !.state = "done", !.st = st,
                               !.stats = stats, !.msg = GetStateResult(st, stats)]
    /\ UNCHANGED <<promptRet, watched, lastSend, lastLine, startCall>>
    /\ UNCHANGED <<watcherVars, piVars, hubVars, killVars, sessVars, gwVars>>

\* ------------------------------------------ BroadcastManager.sendPrompt()
ErrorMsg == Msg("error", "", <<"e">>, "")

\* The prompts whose rejection the .catch of sendPrompt is waiting for.
WatchedPending == {i \in watched : promises[i].state = "pending"}

\* sendPrompt(message, originatingClientId): the snapshot of the Map's keys,
\* pi.prompt(message) not awaited.  When the client is not running the promise
\* is born rejected and its .catch broadcasts the error before any other event
\* is handled.
SendPrompt(oc) ==
    /\ nEvents < MaxFanout
    /\ Len(promises) < MaxReq
    /\ nEvents' = nEvents + 1
    /\ lastEvent' = [type |-> "sendPrompt", id |-> "", text |-> <<>>]
    /\ currentPrompt' = "set"
    /\ promptRet' = [set |-> TRUE, ids |-> Registered]
    /\ IF IsRunning
       THEN /\ promises' = Append(promises,
                   NewPromise("prompt", Len(promises) + 1))
            /\ lastCall' = "prompt"
            /\ watched' = watched \cup {Len(promises) + 1}
            /\ Emit(<<>>, 0, oc)
       ELSE /\ promises' = promises
            /\ lastCall' = "prompt_not_running"
            /\ watched' = watched
            /\ Emit(<<ErrorMsg>>, 0, oc)
    /\ UNCHANGED <<process, children, restartTimers, reloads, mainPc>>
    /\ UNCHANGED <<currentText, proseStartOffset, insideTool, currentThinking,
                   isThinking>>
    /\ UNCHANGED registryVars
    /\ UNCHANGED upstreamVars
    /\ UNCHANGED <<watcherVars, killVars, sessVars, gwVars, stateCall, lastSend, lastLine, startCall>>

\* The child emits "error" while prompts of sendPrompt are outstanding: onError
\* rejects every outstanding promise, and the .catch of each such prompt
\* broadcasts one error message.
PromptError(c, oc) ==
    /\ Alive(c)
    /\ WatchedPending # {}
    /\ nEvents < MaxFanout
    /\ nEvents' = nEvents + 1
    /\ lastEvent' = [type |-> "error", id |-> "", text |-> <<>>]
    /\ promises' = [i \in DOMAIN promises |->
                       IF promises[i].state = "pending"
                       THEN [promises[i] EXCEPT !.state = "rejected"]
                       ELSE promises[i]]
    /\ watched' = watched \ WatchedPending
    /\ Emit([k \in 1..Cardinality(WatchedPending) |-> ErrorMsg], 0, oc)
    /\ UNCHANGED <<process, children, restartTimers, reloads, mainPc, lastCall>>
    /\ UNCHANGED closureVars
    /\ UNCHANGED registryVars
    /\ UNCHANGED upstreamVars
    /\ UNCHANGED <<watcherVars, killVars, sessVars, gwVars, stateCall, promptRet, lastSend, lastLine,
                   startCall>>

\* ------------------------------------ PiRpcClient: send, handleLine, start
\* send(command): throws when this.process or its stdin is missing, else writes
\* JSON.stringify(command) + "\n" (one line: stringify escapes line breaks) to
\* the stdin of this.process.  The stdin object of a child exists also when its
\* spawn failed or the child has ended.
Send ==
    /\ lastSend.n < MaxSends
    /\ lastSend' = IF process = 0
                   THEN [n |-> lastSend.n + 1, result |-> "threw", child |-> 0, lines |-> 0]
                   ELSE [n |-> lastSend.n + 1, result |-> "wrote", child |-> process,
                         lines |-> 1]
    /\ UNCHANGED <<stateCall, promptRet, watched, lastLine, startCall>>
    /\ UNCHANGED <<watcherVars, piVars, hubVars, killVars, sessVars, gwVars>>

\* onResponse of sendAndWait with every id accepted.
ResponseMatches_AnyId(p, id) == TRUE

\* onResponse of sendAndWait: if (response.id !== id) return.
ResponseMatches(p, id) == p.id = id

\* The ids a response line can carry: one the client issued or will issue, or none.
LineIds == {CorrelationId(kind, n) : kind \in {"request", "prompt"}, n \in 1..MaxReq}
              \cup {NoId}

\* handleLine of a line with type "response": emit("response"); onResponse of
\* each outstanding sendAndWait settles its promise when the id is its own.
\* prompt() has no "response" listener.
ResponseLine(c, id, success) ==
    /\ Alive(c)
    /\ lastLine.n < MaxLines
    /\ lastLine' = [n |-> lastLine.n + 1, id |-> id, success |-> success]
    /\ promises' = [i \in DOMAIN promises |->
                       IF /\ promises[i].kind = "request"
                          /\ promises[i].state = "pending"
                          /\ ResponseMatches(promises[i], id)
                       THEN [promises[i] EXCEPT !.state =
                                IF success THEN "resolved" ELSE "rejected"]
                       ELSE promises[i]]
    /\ UNCHANGED <<process, children, restartTimers, reloads, mainPc, lastCall>>
    /\ UNCHANGED <<stateCall, promptRet, watched, lastSend, startCall>>
    /\ UNCHANGED <<watcherVars, hubVars, killVars, sessVars, gwVars>>

\* start() up to its await: nothing when isRunning; else spawn("pi", ...).  With
\* the binary missing the child's "error" event follows (no "exit" event), whose
\* handler emits "error": every outstanding promise is rejected.
StartCall(missing) ==
    /\ mainPc = "started"
    /\ startCall.state # "waiting"
    /\ IsRunning \/ CanSpawn
    /\ missing => ~IsRunning
    /\ IF IsRunning
       THEN /\ startCall' = [NoStartCall EXCEPT !.state = "done", !.result = "resolved"]
            /\ lastCall' = "start_noop"
            /\ UNCHANGED <<process, children, promises>>
       ELSE /\ process' = NewChild
            /\ children' = [children EXCEPT ![NewChild] =
                               IF missing THEN "failed" ELSE "running"]
            /\ promises' = [i \in DOMAIN promises |->
                               IF missing /\ promises[i].state = "pending"
                               THEN [promises[i] EXCEPT !.state = "rejected"]
                               ELSE promises[i]]
            /\ startCall' = [NoStartCall EXCEPT !.state = "waiting", !.child = NewChild]
            /\ lastCall' = "start"
    /\ UNCHANGED <<restartTimers, reloads, mainPc>>
    /\ UNCHANGED <<stateCall, promptRet, watched, lastSend, lastLine>>
    /\ UNCHANGED <<watcherVars, hubVars, killVars, sessVars, gwVars>>

\* start() after the 500 ms: emit("ready") and return; there is no other way
\* out of start().
StartReturn ==
    /\ startCall.state = "waiting"
    /\ startCall' = [startCall EXCEPT !.state = "done", !.result = "resolved",
                        !.childAtReturn = children[startCall.child],
                        !.running = IsRunning]
    /\ UNCHANGED <<stateCall, promptRet, watched, lastSend, lastLine>>
    /\ UNCHANGED <<watcherVars, piVars, hubVars, killVars, sessVars, gwVars>>

\* ------------------------------------ PiRpcClient.handleLine: dropped lines
\* Lines of the child's output that are empty or not JSON: blank, text, a
\* truncated object.
BadLines == {"", "not json", "{\"type\":"}

\* handleLine(line) of such a line without the try/catch around JSON.parse.
HandleBadLine_NoCatch(line) == IF line = "" THEN "ignored" ELSE "threw"

\* handleLine(line) of such a line: !line.trim() returns at once; JSON.parse
\* throws, which the catch block logs.  Nothing is emitted either way.
HandleBadLine(line) == IF line = "" THEN "ignored" ELSE "dropped"

\* -------------------- TelegramClient (telegram-client.ts)
\* The fields after construction; calls are the Telegram API calls awaited,
\* created counts the response messages delivered since the last setContext.
TgInit ==
    [ctx |-> FALSE, responseMessageId |-> 0, accumulatedText |-> <<>>,
     lastEditedText |-> <<>>, pendingEdit |-> FALSE, retry |-> FALSE,
     calls |-> {}, turn |-> 0, nSends |-> 0, created |-> 0]

GwInit ==
    /\ badLines = [n |-> 0, at |-> 0, threw |-> FALSE]
    /\ piText = <<>>
    /\ turns = <<>>
    /\ wsClients = [c \in ClientIds |->
                       [inMap |-> FALSE, socket |-> "none", isAlive |-> FALSE,
                        confirmation |-> "none"]]
    /\ wss = "listening"
    /\ restartAttempts = 0
    /\ labelCall = [set |-> FALSE, toolName |-> "", args |-> NoArgs, label |-> <<>>]
    /\ cut = [set |-> FALSE, log |-> 0]
    /\ tg = TgInit
    /\ histCall = [set |-> FALSE, log |-> <<>>, hasLimit |-> FALSE, limit |-> 0,
                   readable |-> TRUE, messages |-> <<>>]

\* The readline "line" listener is called with a line that is empty or not JSON.
\* An exception leaving the listener would be uncaught.
DroppedLine(c, line) ==
    /\ Alive(c)
    /\ ~badLines.threw
    /\ badLines.n < MaxBadLines
    /\ badLines' = [n |-> badLines.n + 1, at |-> lastLine.n,
                    threw |-> HandleBadLine(line) = "threw"]
    /\ UNCHANGED <<piText, turns, wsClients, wss, restartAttempts, auxVars>>
    /\ UNCHANGED <<watcherVars, piVars, hubVars, killVars, sessVars, rpcVars>>

\* -------------------- PiRpcClient.prompt: the text of a turn; Heartbeat.tick
\* The prompts whose "event" listener is registered: cleanup() runs only on
\* agent_end and on "error".
Listening == {i \in DOMAIN promises :
                 promises[i].kind = "prompt" /\ promises[i].state = "pending"}

RECURSIVE Repeat(_, _)
\* `this.currentText += delta` run by k listeners.
Repeat(delta, k) == IF k = 0 THEN <<>> ELSE delta \o Repeat(delta, k - 1)

\* pi.prompt(message) called by sendPrompt (src "user", broadcast.ts) or by
\* Heartbeat.tick after its readFile (src "heartbeat"): rejected when not
\* running; else a new id, this.currentText = "", the listeners, the command
\* written.  Neither caller looks at an outstanding prompt.
PromptFrom(src) ==
    /\ Len(promises) < MaxReq
    /\ IF IsRunning
       THEN /\ promises' = Append(promises, NewPromise("prompt", Len(promises) + 1))
            /\ lastCall' = "prompt"
            /\ piText' = <<>>
            /\ turns' = Append(turns, [src |-> src, since |-> <<>>, got |-> <<>>,
                                       done |-> FALSE, told |-> "no",
                                       at |-> Len(hubLog)])
       ELSE /\ lastCall' = "prompt_not_running"
            /\ UNCHANGED <<promises, piText, turns>>
    /\ UNCHANGED <<process, children, restartTimers, reloads, mainPc>>
    /\ UNCHANGED <<badLines, wsClients, wss, restartAttempts, auxVars>>
    /\ UNCHANGED <<watcherVars, hubVars, killVars, sessVars, rpcVars>>

\* handleLine of a message_update / text_delta event: onEvent of every
\* listening prompt appends the delta to this.currentText.
TextDeltaLine(c, delta) ==
    /\ Alive(c)
    /\ Len(piText) + Len(delta) * Cardinality(Listening) <= MaxText
    /\ \A i \in Listening : Len(turns[i].since) < MaxText
    /\ piText' = piText \o Repeat(delta, Cardinality(Listening))
    /\ turns' = [i \in DOMAIN turns |->
                    IF i \in Listening
                    THEN [turns[i] EXCEPT !.since = @ \o delta]
                    ELSE turns[i]]
    /\ UNCHANGED <<badLines, wsClients, wss, restartAttempts, auxVars>>
    /\ UNCHANGED <<watcherVars, piVars, hubVars, killVars, sessVars, rpcVars>>

\* handleLine of an agent_end event: onEvent of every listening prompt
\* resolves it with this.currentText.
TurnEndLine(c) ==
    /\ Alive(c)
    /\ Listening # {}
    /\ promises' = [i \in DOMAIN promises |->
                       IF i \in Listening
                       THEN [promises[i] EXCEPT !.state = "resolved"]
                       ELSE promises[i]]
    /\ turns' = [i \in DOMAIN turns |->
                    IF i \in Listening
                    THEN [turns[i] EXCEPT !.got = piText, !.done = TRUE]
                    ELSE turns[i]]
    /\ UNCHANGED <<process, children, restartTimers, reloads, mainPc, lastCall>>
    /\ UNCHANGED <<badLines, piText, wsClients, wss, restartAttempts, auxVars>>
    /\ UNCHANGED <<watcherVars, hubVars, killVars, sessVars, rpcVars>>

\* -------------------- Heartbeat.tick and the events of its turn
NO_ACTION_MARKER == "[[NO_ACTION]]"

\* The backtick character of the regular expression in tick().
Backtick == "bq"

\* tick() on the response of its prompt: trim, strip the backticks at both
\* ends, and take it as no action when it is empty or includes the marker.
NoAction(response) ==
    LET t == Trim(response)
        inner == {i \in 1..Len(t) : t[i] # Backtick}
        trimmed == IF inner = {} THEN <<>>
                   ELSE SubSeq(t, CHOOSE i \in inner : \A j \in inner : i <= j,
                                  CHOOSE i \in inner : \A j \in inner : j <= i)
    IN \/ trimmed = <<>>
       \/ \E i \in 1..Len(trimmed) : trimmed[i] = NO_ACTION_MARKER

\* handleLine of a text_delta event of the turn: emit("event") runs the
\* listener of BroadcastManager (appends, broadcasts unless in a tool) and the
\* onEvent of every listening prompt (appends to this.currentText).
HeartbeatDeltaLine(c, delta, oc) ==
    /\ Alive(c)
    /\ Listening # {}
    /\ Len(piText) + Len(delta) * Cardinality(Listening) <= MaxText
    /\ \A i \in Listening : Len(turns[i].since) < MaxText
    /\ nEvents < MaxEvents
    /\ nEvents' = nEvents + 1
    /\ lastEvent' = [type |-> "text_delta", id |-> "", text |-> delta]
    /\ currentText' = currentText \o delta
    /\ IF ~insideTool
       THEN Emit(<<Msg("text_delta", "", delta, "")>>, 0, oc)
       ELSE Emit(<<>>, 0, oc)
    /\ upBlock' = upBlock \o delta
    /\ sinceToolEnd' = sinceToolEnd \o delta
    /\ turnOpen' = TRUE
    /\ piText' = piText \o Repeat(delta, Cardinality(Listening))
    /\ turns' = [i \in DOMAIN turns |->
                    IF i \in Listening
                    THEN [turns[i] EXCEPT !.since = @ \o delta]
                    ELSE turns[i]]
    /\ UNCHANGED <<proseStartOffset, insideTool, currentThinking, isThinking,
                   currentPrompt, upOpen, available, sendKind, regAt, regMid>>
    /\ UNCHANGED <<badLines, wsClients, wss, restartAttempts, auxVars>>
    /\ UNCHANGED <<watcherVars, piVars, killVars, sessVars, rpcVars>>

\* handleLine of the agent_end event of the turn: the listener of
\* BroadcastManager broadcasts done and resets, the onEvent of every listening
\* prompt resolves it with this.currentText.
HeartbeatEndLine(c, oc) ==
    /\ Alive(c)
    /\ Listening # {}
    /\ nEvents < MaxEvents
    /\ nEvents' = nEvents + 1
    /\ lastEvent' = [type |-> "agent_end", id |-> "", text |-> <<>>]
    /\ Emit(MarkdownImageMessages(ExtractMarkdownImages(ProseResponse).images)
            \o <<Msg("done", "", ExtractMarkdownImages(ProseResponse).textOnly, "usage")>>,
            0, oc)
    /\ currentText' = <<>>
    /\ proseStartOffset' = 0
    /\ insideTool' = FALSE
    /\ currentPrompt' = "null"
    /\ upOpen' = {}
    /\ upBlock' = <<>>
    /\ sinceToolEnd' = <<>>
    /\ turnOpen' = FALSE
    /\ promises' = [i \in DOMAIN promises |->
                       IF i \in Listening
                       THEN [promises[i] EXCEPT !.state = "resolved"]
                       ELSE promises[i]]
    /\ turns' = [i \in DOMAIN turns |->
                    IF i \in Listening
                    THEN [turns[i] EXCEPT !.got = piText, !.done = TRUE]
                    ELSE turns[i]]
    /\ UNCHANGED <<currentThinking, isThinking, available, sendKind, regAt, regMid>>
    /\ UNCHANGED <<process, children, restartTimers, reloads, mainPc, lastCall>>
    /\ UNCHANGED <<badLines, piText, wsClients, wss, restartAttempts, auxVars>>
    /\ UNCHANGED <<watcherVars, killVars, sessVars, rpcVars>>

\* tick() after its await of pi.prompt: nothing on a no-action response, else
\* onResponse(trimmed), which index.ts wires to a proactive broadcast.
HeartbeatSettled(i, oc) ==
    /\ i \in DOMAIN turns
    /\ turns[i].src = "heartbeat"
    /\ turns[i].done
    /\ turns[i].told = "no"
    /\ IF NoAction(turns[i].got)
       THEN /\ turns' = [turns EXCEPT ![i].told = "skipped"]
            /\ UNCHANGED hubVars
       ELSE /\ turns' = [turns EXCEPT ![i].told = "proactive"]
            /\ nEvents < MaxEvents
            /\ nEvents' = nEvents + 1
            /\ lastEvent' = [type |-> "broadcast", id |-> "", text |-> turns[i].got]
            /\ Emit(<<Msg("proactive", "", turns[i].got, "")>>, 0, oc)
            /\ UNCHANGED <<closureVars, upstreamVars, available, sendKind, regAt, regMid>>
    /\ UNCHANGED <<badLines, piText, wsClients, wss, restartAttempts, auxVars>>
    /\ UNCHANGED <<watcherVars, piVars, killVars, sessVars, rpcVars>>

\* -------------------- TelegramClient: one response message per turn
\* What a step of the Telegram subscriber keeps.
TgFrame ==
    /\ UNCHANGED <<watcherVars, piVars, hubVars, killVars, sessVars, rpcVars>>
    /\ UNCHANGED <<badLines, piText, turns, wsClients, wss, restartAttempts,
                   labelCall, cut, histCall>>

\* A Telegram API call a handler awaits: ctx.reply, editMessageText, and the
\* edit or replyLong of handleDone.
TgCall(kind, text) == [kind |-> kind, text |-> text, turn |-> tg.turn, n |-> tg.nSends + 1]

\* The fields clearContext() and setContext() reset.
ClearContext(t) ==
    [t EXCEPT !.ctx = FALSE, !.responseMessageId = 0, !.lastEditedText = <<>>,
              !.accumulatedText = <<>>, !.pendingEdit = FALSE]

\* setContext(ctx), as telegram.onMessage of index.ts calls it for a message.
TgSetContext ==
    /\ tg.turn < MaxTgTurns
    /\ tg' = [ClearContext(tg) EXCEPT !.ctx = TRUE, !.turn = tg.turn + 1, !.created = 0]
    /\ TgFrame

\* doEdit up to its await: nothing without context or message id or with
\* nothing new, else editMessageText with the accumulated text.
DoEdit(t) ==
    IF ~t.ctx \/ t.responseMessageId = 0 \/ t.accumulatedText = t.lastEditedText
    THEN t
    ELSE [t EXCEPT !.calls = @ \cup {TgCall("edit", t.accumulatedText)}]

\* send() of a text_delta, up to its first await: handleTextDelta accumulates;
\* with no message id yet it awaits ctx.reply(initial); else it edits now
\* (due: the throttle interval has passed) or sets the pendingEdit timer.
TgTextDelta(content, due) ==
    /\ tg.ctx
    /\ tg.nSends < MaxTgSends
    /\ LET t == [tg EXCEPT !.accumulatedText = @ \o content, !.nSends = @ + 1]
       IN tg' = IF t.responseMessageId = 0
                THEN [t EXCEPT !.calls = @ \cup {TgCall("reply", t.accumulatedText)}]
                ELSE IF due THEN DoEdit([t EXCEPT !.pendingEdit = FALSE])
                ELSE [t EXCEPT !.pendingEdit = TRUE]
    /\ TgFrame

\* The pendingEdit timer, or the retry timer of a rate-limited edit, fires.
TgEditTimer(which) ==
    /\ tg[which]
    /\ tg' = DoEdit([tg EXCEPT ![which] = FALSE])
    /\ TgFrame

\* send() of done, up to its first await: handleDone clears the timer, takes
\* finalText if there is one, then edits the response message, or with no
\* message id sends finalText as a new message, or does neither and clears.
TgDone(finalText) ==
    /\ tg.ctx
    /\ tg.nSends < MaxTgSends
    /\ LET t == [tg EXCEPT !.pendingEdit = FALSE, !.nSends = @ + 1,
                           !.accumulatedText = IF finalText # <<>> THEN finalText ELSE @]
       IN tg' = IF /\ t.responseMessageId # 0
                   /\ t.accumulatedText # <<>>
                   /\ t.accumulatedText # t.lastEditedText
                THEN [t EXCEPT !.calls = @ \cup {TgCall("doneEdit", t.accumulatedText)}]
                ELSE IF t.responseMessageId = 0 /\ finalText # <<>>
                THEN [t EXCEPT !.calls = @ \cup {TgCall("doneReply", finalText)}]
                ELSE ClearContext(t)
    /\ TgFrame

\* An awaited API call settles (result: "ok", "fail", or for an edit "retry",
\* the rate limit) and its handler runs on.  A delivered reply is a new
\* message of the chat: handleTextDelta keeps its id; handleDone clears the
\* context after its edit (failed or not) and after a delivered replyLong.
TgCallDone(c, result) ==
    /\ c \in tg.calls
    /\ result = "retry" => c.kind = "edit"
    /\ LET t == [tg EXCEPT !.calls = @ \ {c}]
           new == IF c.turn = tg.turn THEN 1 ELSE 0
       IN tg' =
            IF c.kind = "reply"
            THEN IF result = "ok"
                 THEN [t EXCEPT !.responseMessageId = c.n, !.lastEditedText = c.text,
                                !.created = @ + new]
                 ELSE t
            ELSE IF c.kind = "edit"
            THEN IF result = "ok" THEN [t EXCEPT !.lastEditedText = c.text]
                 ELSE IF result = "retry" THEN [t EXCEPT !.retry = TRUE]
                 ELSE t
            ELSE IF c.kind = "doneEdit"
            THEN ClearContext(t)
            ELSE IF result = "ok"
                 THEN ClearContext([t EXCEPT !.created = @ + new])
                 ELSE t
    /\ TgFrame

\* -------------------- WebSocketGateway: connections and the registry
\* The connections in WebSocketGateway.clients.
InMap == {c \in ClientIds : wsClients[c].inMap}

\* What the hub and the rest keep in a step of the gateway's connection handling.
WsFrame ==
    /\ UNCHANGED <<hubLog, bcastExclude, bcastResult, nEvents, lastEvent>>
    /\ UNCHANGED <<closureVars, upstreamVars, watcherVars, piVars>>
    /\ UNCHANGED <<killVars, sessVars, rpcVars, badLines, piText, turns,
                   restartAttempts, auxVars>>

\* handleConnection(ws) of a new socket, with its fresh id: into the Map and
\* the registry; the confirmation is sent later, after getState().
HandleConnection(c) ==
    /\ wss = "listening"
    /\ wsClients[c].socket \in {"none", "closed"}
    /\ c \notin Registered
    /\ wsClients' = [wsClients EXCEPT ![c] =
                        [inMap |-> TRUE, socket |-> "open", isAlive |-> TRUE,
                         confirmation |-> "pending"]]
    /\ RegistryAdd(c, "async", TRUE)
    /\ UNCHANGED wss
    /\ WsFrame

\* sendConnectionConfirmation after its await: client.send writes only if the
\* socket is OPEN.
ConnectionConfirmed(c) ==
    /\ wsClients[c].confirmation = "pending"
    /\ wsClients' = [wsClients EXCEPT ![c].confirmation =
                        IF wsClients[c].socket = "open" THEN "sent" ELSE "skipped"]
    /\ UNCHANGED <<wss, registryVars, sent>>
    /\ WsFrame

\* ws.on("pong").
PongEvent(c) ==
    /\ wsClients[c].socket = "open"
    /\ ~wsClients[c].isAlive
    /\ wsClients' = [wsClients EXCEPT ![c].isAlive = TRUE]
    /\ UNCHANGED <<wss, registryVars, sent>>
    /\ WsFrame

\* ws.on("close"): the socket closed by the peer, or after terminate().
CloseEvent(c) ==
    /\ wsClients[c].socket \in {"open", "terminated"}
    /\ wsClients' = [wsClients EXCEPT ![c].socket = "closed", ![c].inMap = FALSE]
    /\ RegistryRemove({c})
    /\ UNCHANGED wss
    /\ WsFrame

\* heartbeat() that terminates every connection of the Map.
DeadConnections_All(conns) == {c \in ClientIds : conns[c].inMap}

\* The connections heartbeat() terminates: those of the Map whose isAlive is
\* still false, that is, no pong came since the last ping.
DeadConnections(conns) == {c \in ClientIds : conns[c].inMap /\ ~conns[c].isAlive}

\* heartbeat(): every connection of the Map that did not answer the last ping
\* is terminated, deleted and unregistered; the others are pinged.
WsHeartbeat ==
    /\ wss = "listening"
    /\ InMap # {}
    /\ LET dead == DeadConnections(wsClients)
       IN /\ wsClients' = [c \in ClientIds |->
                IF c \in dead
                THEN [wsClients[c] EXCEPT !.socket = "terminated", !.inMap = FALSE]
                ELSE IF c \in InMap
                THEN [wsClients[c] EXCEPT !.isAlive = FALSE]
                ELSE wsClients[c]]
          /\ RegistryRemove(dead)
    /\ UNCHANGED wss
    /\ WsFrame

\* stop(): the interval cleared, every connection unregistered and terminated,
\* the Map cleared, the server closed.
WsStop ==
    /\ wss = "listening"
    /\ wsClients' = [c \in ClientIds |->
            IF c \in InMap
            THEN [wsClients[c] EXCEPT !.socket = "terminated", !.inMap = FALSE]
            ELSE wsClients[c]]
    /\ RegistryRemove(InMap)
    /\ wss' = "stopped"
    /\ WsFrame

\* -------------------- index.ts: the restart timer of pi.on("exit")
\* The timers pending after a timer has fired, if the timer repeated.
TimersAfterAttempt_Repeat(pending) == pending

\* The timers pending after a timer has fired: setTimeout fires once.
TimersAfterAttempt(pending) == pending - 1

\* The timer set by the "exit" listener fires: pi.start().catch(...).  start()
\* does nothing when isRunning; else it spawns, and with the binary missing the
\* child's "error" event follows (no "exit" event), rejecting what is outstanding.
RestartAttempt(missing) ==
    /\ restartTimers > 0
    /\ IsRunning \/ CanSpawn
    /\ missing => ~IsRunning
    /\ restartTimers' = TimersAfterAttempt(restartTimers)
    /\ restartAttempts < MaxSpawn
    /\ restartAttempts' = restartAttempts + 1
    /\ IF IsRunning
       THEN /\ lastCall' = "restart_noop"
            /\ UNCHANGED <<process, children, promises>>
       ELSE /\ process' = NewChild
            /\ children' = [children EXCEPT ![NewChild] =
                               IF missing THEN "failed" ELSE "running"]
            /\ promises' = [i \in DOMAIN promises |->
                               IF missing /\ promises[i].state = "pending"
                               THEN [promises[i] EXCEPT !.state = "rejected"]
                               ELSE promises[i]]
            /\ lastCall' = "restart"
    /\ UNCHANGED <<reloads, mainPc>>
    /\ UNCHANGED <<badLines, piText, turns, wsClients, wss, auxVars>>
    /\ UNCHANGED <<watcherVars, hubVars, killVars, sessVars, rpcVars>>

\* -------------------- formatToolLabel on its own
ToolNames == {"bash", "read", "grep", "fetch"}

\* The argument values a tool_execution_start can carry: not an object, or an
\* object in which each of the five fields is absent or a string of its own.
ArgValues ==
    {NoArgs} \cup
    {Args(c, p, g, u, q) : c \in {"", "c"}, p \in {"", "p"}, g \in {"", "g"},
                           u \in {"", "u"}, q \in {"", "q"}}

\* What the rest keeps in a step that only computes a value.
PureFrame ==
    /\ UNCHANGED <<watcherVars, piVars, hubVars, killVars, sessVars, rpcVars>>
    /\ UNCHANGED <<badLines, piText, turns, wsClients, wss, restartAttempts>>

\* The tool_execution_start handler computes the label of the event.
FormatLabel(toolName, args) ==
    /\ labelCall' = [set |-> TRUE, toolName |-> toolName, args |-> args,
                     label |-> FormatToolLabel(toolName, args)]
    /\ UNCHANGED <<cut, tg, histCall>>
    /\ PureFrame

\* -------------------- get_history (websocket-server.ts)
\* message.limit ?? 50
DefaultHistoryLimit == 50

\* The lines of a session log: a user or assistant message, a tool result
\* with or without an image, an entry that is no message, a line that is not
\* JSON.
LineKinds == {"user", "assistant", "toolImage", "toolText", "session", "invalid"}

RECURSIVE Logs(_)
Logs(n) == IF n = 0 THEN {<<>>}
           ELSE Logs(n - 1) \cup {Append(l, k) : l \in {x \in Logs(n - 1) : Len(x) = n - 1},
                                                 k \in LineKinds}

\* Array.prototype.slice(start).
Slice(s, start) ==
    LET k == IF start < 0
             THEN (IF Len(s) + start < 0 THEN 0 ELSE Len(s) + start)
             ELSE (IF start > Len(s) THEN Len(s) ELSE start)
    IN SubSeq(s, k + 1, Len(s))

\* readSessionHistory(limit): the user, assistant and tool-image entries of
\* the log in order, then slice(-limit); [] when the file cannot be read.
ReadSessionHistory(log, limit, readable) ==
    LET kept == SelectSeq([i \in 1..Len(log) |-> i],
                          LAMBDA i : log[i] \in {"user", "assistant", "toolImage"})
        messages == [k \in 1..Len(kept) |-> [id |-> kept[k], role |-> log[kept[k]]]]
    IN IF readable THEN Slice(messages, 0 - limit) ELSE <<>>

\* A get_history message is handled: the history message sent to the client.
HandleGetHistory(log, hasLimit, limit, readable) ==
    /\ hasLimit \/ limit = 0
    /\ histCall' = [set |-> TRUE, log |-> log, hasLimit |-> hasLimit, limit |-> limit,
                    readable |-> readable,
                    messages |-> ReadSessionHistory(
                                    log, IF hasLimit THEN limit ELSE DefaultHistoryLimit,
                                    readable)]
    /\ UNCHANGED <<labelCall, cut, tg>>
    /\ PureFrame

\* -------------------- a subprocess exit in the middle of a turn
\* The subprocess exits while a turn is open.  BroadcastManager listens to
\* "event" only: nothing of the hub changes.  The tool invocations and the
\* text of the dead subprocess are gone with it; the next upstream event
\* belongs to a new turn of the restarted subprocess.
ExitMidTurn ==
    /\ turnOpen
    /\ ~cut.set
    /\ cut' = [set |-> TRUE, log |-> Len(hubLog)]
    /\ upOpen' = {}
    /\ upBlock' = <<>>
    /\ sinceToolEnd' = <<>>
    /\ turnOpen' = FALSE
    /\ UNCHANGED <<closureVars, registryVars, sent, hubLog, bcastExclude, bcastResult,
                   nEvents, lastEvent>>
    /\ UNCHANGED <<watcherVars, piVars, killVars, sessVars, rpcVars>>
    /\ UNCHANGED <<badLines, piText, turns, wsClients, wss, restartAttempts, labelCall,
                   tg, histCall>>

ExtInit == KillInit /\ SessInit /\ RpcInit /\ GwInit

\* ---------------------------------------------------------- specifications
\* The watcher alone, as index.ts leaves it: nobody listens.
InitWatcher == WatcherInit /\ listeners = {} /\ PiInit /\ HubInit /\ ExtInit

NextWatcher ==
    \/ WatcherStart
    \/ WatcherStop
    \/ CheckStatusCall
    \/ WatcherStep
    \/ EnvStep

SpecWatcher == InitWatcher /\ [][NextWatcher]_vars

\* The client alone, with the exit listener of index.ts.
InitPi == WatcherInit /\ listeners = {} /\ PiInit /\ HubInit /\ ExtInit

PiLifeStep ==
    \/ RestartTimer
    \/ \E c \in ChildIds : ChildDies(c)
    \/ \E c \in ChildIds : ExitEvent(c)

NextPi ==
    \/ MainStart
    \/ ApiStart
    \/ ApiStop
    \/ ReloadBegin
    \/ ReloadResume
    \/ Prompt
    \/ Request
    \/ \E c \in ChildIds : AgentEndLine(c)
    \/ \E c \in ChildIds : ProcessError(c)
    \/ \E i \in DOMAIN promises, success \in BOOLEAN : Response(i, success)
    \/ PiLifeStep

SpecPi == InitPi /\ [][NextPi]_vars

\* Watcher and client together, once main() has started the client and the
\* watcher polls.
InitOwn ==
    /\ interval = TRUE
    /\ tuiActive = FALSE
    /\ listeners = {}
    /\ calls = EmptyBag
    /\ lockFile = NoFile
    /\ pidState = [p \in Pids |-> "dead"]
    /\ notes = <<>>
    /\ statusResult = "unset"
    /\ everInvalid = TRUE
    /\ process = 1
    /\ children = [c \in ChildIds |-> IF c = 1 THEN "running" ELSE "unborn"]
    /\ promises = <<>>
    /\ restartTimers = 0
    /\ reloads = 0
    /\ mainPc = "started"
    /\ lastCall = "start"
    /\ HubInit
    /\ ExtInit

NextOwn == WatcherStep \/ EnvStep \/ PiLifeStep

SpecOwn == InitOwn /\ [][NextOwn]_vars

\* killTui() and handleTakeover() next to the running client.
InitKill == InitOwn

NextKill == KillStep \/ EnvStep \/ PiLifeStep

SpecKill == InitKill /\ [][NextKill]_vars

\* SessionManager next to the running client.
InitSession == InitOwn

NextSession ==
    \/ SessionStep
    \/ \E i \in DOMAIN promises, success \in BOOLEAN : Response(i, success)
    \/ \E c \in ChildIds : ProcessError(c)
    \/ \E c \in ChildIds : ChildDies(c)
    \/ \E c \in ChildIds : ExitEvent(c)

SpecSession == InitSession /\ [][NextSession]_vars

\* getState() of the hub next to the running client.
InitState == InitOwn

NextState ==
    \/ GetStateCall
    \/ GetStateSettled
    \/ \E i \in DOMAIN promises, success \in BOOLEAN : Response(i, success)
    \/ \E c \in ChildIds : ProcessError(c)
    \/ \E c \in ChildIds : ChildDies(c)
    \/ \E c \in ChildIds : ExitEvent(c)
    \/ RestartTimer

SpecState == InitState /\ [][NextState]_vars

\* sendPrompt() of the hub with subscribers, next to the running client.
InitPrompt == InitOwn

NextPrompt ==
    \/ \E c \in ClientIds, kind \in {"async", "sync"}, isAvailable \in BOOLEAN :
          RegisterClient(c, kind, isAvailable)
    \/ \E c \in ClientIds : UnregisterClient(c)
    \/ \E c \in ClientIds, isAvailable \in BOOLEAN : SetAvailable(c, isAvailable)
    \/ \E oc \in Outcomes : SendPrompt(oc)
    \/ \E c \in ChildIds, oc \in Outcomes : PromptError(c, oc)
    \/ \E c \in ChildIds : AgentEndLine(c)
    \/ \E c \in ChildIds : ChildDies(c)
    \/ \E c \in ChildIds : ExitEvent(c)

SpecPrompt == InitPrompt /\ [][NextPrompt]_vars

\* The client's life cycle: start, stop, send.
InitStart == InitPi

NextStart ==
    \/ MainStart
    \/ \E missing \in BOOLEAN : StartCall(missing)
    \/ StartReturn
    \/ ApiStop
    \/ Send
    \/ \E c \in ChildIds : ChildDies(c)
    \/ \E c \in ChildIds : ExitEvent(c)

SpecStart == InitStart /\ [][NextStart]_vars

\* Requests, prompts and the lines of the running child.
InitLines == InitOwn

NextLines ==
    \/ Request
    \/ Prompt
    \/ \E c \in ChildIds, id \in LineIds, success \in BOOLEAN : ResponseLine(c, id, success)
    \/ \E c \in ChildIds, line \in BadLines : DroppedLine(c, line)
    \/ \E c \in ChildIds : ProcessError(c)
    \/ \E c \in ChildIds : ChildDies(c)
    \/ \E c \in ChildIds : ExitEvent(c)
    \/ RestartTimer

SpecLines == InitLines /\ [][NextLines]_vars

\* Turns: prompts of the users and of the heartbeat, the deltas and the end of
\* a turn, with the subprocess dying and being restarted.
InitTurn == InitOwn

NextTurn ==
    \/ \E src \in {"user", "heartbeat"} : PromptFrom(src)
    \/ \E c \in ChildIds, delta \in {<<"a">>, <<"b">>} : TextDeltaLine(c, delta)
    \/ \E c \in ChildIds : TurnEndLine(c)
    \/ \E c \in ChildIds : ChildDies(c)
    \/ \E c \in ChildIds : ExitEvent(c)
    \/ RestartTimer

SpecTurn == InitTurn /\ [][NextTurn]_vars

\* The gateway's connections: connect, confirm, pong, close, heartbeat, stop.
InitWs == InitPi

NextWs ==
    \/ \E c \in ClientIds : HandleConnection(c)
    \/ \E c \in ClientIds : ConnectionConfirmed(c)
    \/ \E c \in ClientIds : PongEvent(c)
    \/ \E c \in ClientIds : CloseEvent(c)
    \/ WsHeartbeat
    \/ WsStop

SpecWs == InitWs /\ [][NextWs]_vars

\* The restart of the subprocess: it dies or is stopped, its exit is
\* dispatched, the timer fires; prompts are outstanding meanwhile.
InitRestart == InitOwn

NextRestart ==
    \/ \E missing \in BOOLEAN : RestartAttempt(missing)
    \/ \E c \in ChildIds : ChildDies(c)
    \/ \E c \in ChildIds : ExitEvent(c)
    \/ ApiStop
    \/ Prompt
    \/ \E c \in ChildIds : AgentEndLine(c)

\* Every caller of getActiveLock() next to the environment: poll, checkStatus
\* and killTui.
InitMarker == InitOwn

NextMarker ==
    \/ PollTick
    \/ CheckStatusCall
    \/ KillTuiCall
    \/ \E c \in InFlight : ReadDone(c)
    \/ \E c \in InFlight, died \in BOOLEAN : KillReadDone(c, died)
    \/ \E c \in InFlight : UnlinkExec(c)
    \/ \E c \in InFlight : UnlinkDone(c)
    \/ \E c \in InFlight : KillUnlinkDone(c)
    \/ EnvStep

SpecMarker == InitMarker /\ [][NextMarker]_vars

\* formatToolLabel applied to every tool name and argument object.
InitLabel == InitPi

NextLabel == \E toolName \in ToolNames, args \in ArgValues : FormatLabel(toolName, args)

SpecLabel == InitLabel /\ [][NextLabel]_vars

SpecRestart ==
    /\ InitRestart
    /\ [][NextRestart]_vars
    /\ WF_vars(\E missing \in BOOLEAN : RestartAttempt(missing))

\* The hub's event handlers alone, without subscribers.
InitHub == WatcherInit /\ listeners = {} /\ PiInit /\ HubInit /\ ExtInit

NoOutcome == [c \in ClientIds |-> "ok"]

NextHub ==
    \/ \E id \in ToolCallIds, tool \in Tools :
          nEvents < MaxHubEvents /\ ToolExecutionStart(id, tool, NoOutcome)
    \/ \E id \in ToolCallIds, result \in Results :
          nEvents < MaxHubEvents /\ ToolExecutionEnd(id, "tool", result, NoOutcome)
    \/ \E delta \in Deltas : nEvents < MaxHubEvents /\ TextDelta(delta, NoOutcome)
    \/ nEvents < MaxHubEvents /\ TextDone
    \/ nEvents < MaxHubEvents /\ ThinkingDelta(<<"t">>, NoOutcome)
    \/ nEvents < MaxHubEvents /\ ThinkingDone(NoOutcome)
    \/ nEvents < MaxHubEvents /\ AgentEnd("usage", NoOutcome)

SpecHub == InitHub /\ [][NextHub]_vars

\* Turns of tool starts and text, one of them cut short by an exit.
InitCut == InitPi

NextCut ==
    \/ \E id \in ToolCallIds, tool \in Tools :
          nEvents < MaxHubEvents /\ ToolExecutionStart(id, tool, NoOutcome)
    \/ \E delta \in Deltas : nEvents < MaxHubEvents /\ TextDelta(delta, NoOutcome)
    \/ nEvents < MaxHubEvents /\ AgentEnd("usage", NoOutcome)
    \/ ExitMidTurn

SpecCut == InitCut /\ [][NextCut]_vars

\* Turns of text blocks around one tool invocation: every block is closed by
\* its text_done.
InitBlocks == InitPi

NextBlocks ==
    \/ ToolExecutionStart("a", [toolName |-> "bash", args |-> Args("ls", "", "", "", "")],
                          NoOutcome)
    \/ ToolExecutionEnd("a", "tool", NullResult, NoOutcome)
    \/ \E delta \in {<<"a">>, <<"b", " ">>} : TextDelta(delta, NoOutcome)
    \/ TextDone
    \/ AgentEnd("usage", NoOutcome)

SpecBlocks == InitBlocks /\ [][NextBlocks]_vars

\* The Telegram subscriber: a message sets the context, the events of the
\* turn are sent to it, its API calls settle.
InitTg == InitPi

NextTg ==
    \/ TgSetContext
    \/ \E content \in {<<"a">>, <<"b">>}, due \in BOOLEAN : TgTextDelta(content, due)
    \/ \E which \in {"pendingEdit", "retry"} : TgEditTimer(which)
    \/ \E finalText \in {<<>>, <<"a">>, <<"a", "b">>} : TgDone(finalText)
    \/ \E c \in tg.calls, result \in {"ok", "fail", "retry"} : TgCallDone(c, result)

SpecTg == InitTg /\ [][NextTg]_vars

\* get_history on its own: one request, with any log and any limit.
InitHistory == InitPi

NextHistory ==
    \E log \in Logs(MaxLog), hasLimit \in BOOLEAN, limit \in 0..MaxLimit,
       readable \in BOOLEAN :
          ~histCall.set /\ HandleGetHistory(log, hasLimit, limit, readable)

SpecHistory == InitHistory /\ [][NextHistory]_vars

\* The heartbeat's turns in front of the hub's subscribers.
InitBeat == InitOwn

BeatDeltas == {<<"a">>, <<" ">>, <<Backtick>>, <<NO_ACTION_MARKER>>}

NextBeat ==
    \/ \E c \in ClientIds : RegisterClient(c, "async", TRUE)
    \/ PromptFrom("heartbeat")
    \/ \E c \in ChildIds, delta \in BeatDeltas :
          nEvents < MaxFanout /\ HeartbeatDeltaLine(c, delta, NoOutcome)
    \/ \E c \in ChildIds : nEvents < MaxFanout /\ HeartbeatEndLine(c, NoOutcome)
    \/ \E i \in DOMAIN turns : HeartbeatSettled(i, NoOutcome)
    \/ \E c \in ChildIds : ChildDies(c)
    \/ \E c \in ChildIds : ExitEvent(c)
    \/ RestartTimer

SpecBeat == InitBeat /\ [][NextBeat]_vars

\* The fan-out: subscribers come, go and fail while a turn is streamed.
InitFanout == WatcherInit /\ listeners = {} /\ PiInit /\ HubInit /\ ExtInit

Proactive == Msg("proactive", "", <<"p">>, "")

NextFanout ==
    \/ \E c \in ClientIds, kind \in {"async", "sync"}, isAvailable \in BOOLEAN :
          RegisterClient(c, kind, isAvailable)
    \/ \E c \in ClientIds : UnregisterClient(c)
    \/ \E c \in ClientIds, isAvailable \in BOOLEAN : SetAvailable(c, isAvailable)
    \/ \E excludeClientId \in 0..MaxClients, oc \in Outcomes :
          nEvents < MaxFanout /\ Broadcast(Proactive, excludeClientId, oc)
    \/ \E oc \in Outcomes : nEvents < MaxFanout /\ TextDelta(<<"a">>, oc)
    \/ \E oc \in Outcomes : nEvents < MaxFanout /\ AgentEnd("usage", oc)

SpecFanout == InitFanout /\ [][NextFanout]_vars

\* ------------------------------------------------------------------ claims
Copies(c, bag) == IF BagIn(c, bag) THEN CopiesIn(c, bag) ELSE 0

\* The call c stops being suspended where it is in this step.
Leaves(c) == Copies(c, calls') < Copies(c, calls)

Enters(c) == Copies(c, calls') > Copies(c, calls)

\* C1: while the arbiter is ExternallyOwned (a poll has seen a valid marker and no
\* later poll has found it invalid), no subprocess of the client runs that was
\* not told to stop.
C1_NoAgentWhileExternallyOwned ==
    tuiActive => \A c \in ChildIds : children[c] # "running"

\* C2: at most one subprocess of the client that has not been sent SIGTERM is
\* alive at any instant.
C2_AtMostOneLiveChild ==
    Cardinality({c \in ChildIds : children[c] = "running"}) <= 1

\* C3: once the exit of a subprocess has been surfaced, no prompt or request
\* written to that subprocess is still pending.
C3_NoPendingAfterExit ==
    \A i \in DOMAIN promises :
        promises[i].state = "pending" => children[promises[i].child] # "reaped"

\* C9: notifications alternate, starting with tui-detected, and a tui-gone is
\* emitted only if the marker was invalid at some moment since the tui-detected
\* before it: a marker that stays valid is detected exactly once.
C9_AlternateOncePerMarker ==
    [][Len(notes') > Len(notes) =>
         LET n == notes'[Len(notes')]
             last == IF notes = <<>> THEN "tui-gone" ELSE notes[Len(notes)]
         IN  /\ Len(notes') = Len(notes) + 1
             /\ n # last
             /\ n = "tui-gone" => everInvalid]_vars

\* The content a call has read names the managed session and a process that is dead.
DeadOwner(raw) ==
    /\ raw.kind = "lock"
    /\ raw.pid \in Pids
    /\ raw.session = "managed"
    /\ pidState[raw.pid] = "dead"

NewMessages == SubSeq(hubLog', Len(hubLog) + 1, Len(hubLog'))

\* C4: every broadcast() reaches each registered subscriber that is available
\* and not excluded, whatever the send() of the other subscribers does, and its
\* promise resolves.
C4_FailingSendIsIsolated ==
    [][hubLog' # hubLog =>
          /\ bcastResult' = "resolved"
          /\ \A c \in Registered :
                (available[c] /\ c # bcastExclude')
                    => sent'[c] = sent[c] \o NewMessages]_vars

\* The events of a turn in a log (the heartbeat's proactive message is not one).
TurnEvents(log) == SelectSeq(log, LAMBDA m : m.type # "proactive")

\* C5: a subscriber starts with nothing when it registers, and while it is
\* registered and available after registering in the middle of a turn, every
\* step hands it exactly the events of that step, in order.
C5_LateSubscriberGetsTheRest ==
    [][\A c \in ClientIds :
          /\ (c \notin Registered /\ c \in Registered') => sent'[c] = <<>>
          /\ (c \in Registered /\ c \in Registered' /\ regMid[c] /\ available[c])
                => TurnEvents(sent'[c]) = TurnEvents(sent[c] \o NewMessages)]_vars

IsToolMessage(m) == m.type \in {"tool_start", "tool_output", "tool_end"}

\* The tool messages broadcast for a call id, in order.
ToolMessages(id) == SelectSeq(hubLog, LAMBDA m : IsToolMessage(m) /\ m.id = id)

\* C6: among the messages broadcast for one call id, every tool_output comes
\* right after a tool_start and every tool_end right after a tool_output; none
\* of the two comes first.
C6_ToolEventsInOrder ==
    \A id \in ToolCallIds :
        \A k \in 1..Len(ToolMessages(id)) :
            /\ (ToolMessages(id)[k].type = "tool_output")
                  => (k > 1 /\ ToolMessages(id)[k - 1].type = "tool_start")
            /\ (ToolMessages(id)[k].type = "tool_end")
                  => (k > 1 /\ ToolMessages(id)[k - 1].type = "tool_output")

\* Index of the first message of the type for the call id in hubLog, or 0.
FirstAt(type, id) ==
    IF \E i \in 1..Len(hubLog) : hubLog[i].type = type /\ hubLog[i].id = id
    THEN CHOOSE i \in 1..Len(hubLog) :
            /\ hubLog[i].type = type /\ hubLog[i].id = id
            /\ \A j \in 1..(i - 1) : ~(hubLog[j].type = type /\ hubLog[j].id = id)
    ELSE 0

\* Two overlapping calls have both been broadcast from start to end.
C6_Witness ==
    /\ FirstAt("tool_end", "a") # 0
    /\ FirstAt("tool_end", "b") # 0
    /\ FirstAt("tool_start", "a") < FirstAt("tool_start", "b")
    /\ FirstAt("tool_start", "b") < FirstAt("tool_end", "a")

\* An upstream event of the type is handled in this step.
IsEvent(type) == nEvents' = nEvents + 1 /\ lastEvent'.type = type

\* C7: a text delta is appended to the buffer; it is broadcast, verbatim and
\* alone, when no tool call is open, and nothing is broadcast when one is.
C7_DeltaBroadcastIffNoToolOpen ==
    [][IsEvent("text_delta") =>
          /\ currentText' = currentText \o lastEvent'.text
          /\ NewMessages = IF upOpen = {}
                           THEN <<Msg("text_delta", "", lastEvent'.text, "")>>
                           ELSE <<>>]_vars

\* C8: an agent_end that arrives when every started tool call has ended yields
\* exactly one done, the last message of the step, whose finalText is the text
\* received after the last tool_execution_end of the turn (the whole turn's
\* text when no tool ran), without its markdown images and trimmed.
C8_DoneCarriesProseAfterLastTool ==
    [][(IsEvent("agent_end") /\ upOpen = {}) =>
          /\ NewMessages # <<>>
          /\ Len(SelectSeq(NewMessages, LAMBDA m : m.type = "done")) = 1
          /\ NewMessages[Len(NewMessages)].type = "done"
          /\ NewMessages[Len(NewMessages)].text
                = ExtractMarkdownImages(sinceToolEnd).textOnly]_vars

\* C11: a killTui() that reads a valid marker (managed session path, owner alive
\* when the signal is sent) delivers SIGTERM to the recorded pid, deletes the
\* marker and returns killed with that pid; one that reads no valid marker
\* sends no signal and returns not killed.  (An owner that ends
\* between the probe and the signal is left to C12.)
C11_KillTuiReclaimsValidMarker ==
    [][\A c \in InFlight :
          c.op = "killTui" =>
             /\ (c.stage = "read" /\ Leaves(c) /\ MarkerValidOf(c.raw, pidState'))
                   => /\ signals' = Append(signals, c.raw.pid)
                      /\ Enters(Call("killTui", "killedUnlinking", c.raw))
             /\ (c.stage = "read" /\ Leaves(c) /\ ~MarkerValidOf(c.raw, pidState))
                   => /\ signals' = signals
                      /\ ~Enters(Call("killTui", "killedUnlinking", c.raw))
             /\ (c.stage = "killedUnlinking" /\ Leaves(c)) => lockFile' = NoFile
             /\ (c.stage = "killedUnlinked" /\ Leaves(c))
                   => killResult' = KillResult(TRUE, c.raw.pid)
             /\ (c.stage \in {"unlinked", "failedUnlinked"} /\ Leaves(c))
                   => killResult'.set /\ ~killResult'.killed]_vars

C13_ConsecutiveArchivesDistinct ==
    \A i \in 1..(Len(archiveLog) - 1) :
       (/\ archiveLog[i].path # NoPath
        /\ archiveLog[i + 1].path # NoPath
        /\ archiveLog[i].content = archiveLog[i + 1].content)
          => archiveLog[i].path # archiveLog[i + 1].path

\* C14: archiveBeforeCompaction() never throws: a call in which mkdir, copyFile
\* or the onArchive callback failed returned null, and no compaction handler
\* ended with an exception (so the handlers of later events still run).
C14_ArchiveFailureReturnsNull ==
    /\ ~handlerFailed
    /\ \A i \in 1..Len(archiveLog) :
          /\ ~archiveLog[i].threw
          /\ archiveLog[i].fail # "none" => archiveLog[i].path = NoPath

\* A failed archive call was followed by a compaction event whose handler archived.
C14_Witness ==
    \E i, j \in 1..Len(archiveLog) :
       /\ i < j
       /\ archiveLog[i].fail = "onArchive"
       /\ archiveLog[i].path = NoPath
       /\ archiveLog[j].fail = "none"
       /\ archiveLog[j].path # NoPath

\* C15: archiveAndStartNew() returns a result, and when its copy succeeded and
\* the new-session request failed (sendAndWait threw, or the request was
\* rejected, which is what an unsuccessful response does) the result carries the
\* archive path together with the error.
C15_NewSessionFailureKeepsArchive ==
    (newCall.state = "done" /\ newCall.error \in {"not_running", "rejected"})
       => newCall.archived = newCall.path /\ newCall.path # NoPath

\* C16: getState() always returns a state message: with the state query
\* resolved and the session-stats query rejected, model and provider are set and
\* contextTokens is undefined; with the state query rejected it is still a
\* state message (isProcessing only), never an error.
C16_GetStateToleratesEitherFailure ==
    stateCall.state = "done" =>
       /\ stateCall.msg.type = "state"
       /\ (stateCall.st = "resolved" /\ stateCall.stats = "rejected")
             => stateCall.msg.model /\ ~stateCall.msg.contextTokens
       /\ (stateCall.st = "resolved" /\ stateCall.stats = "resolved")
             => stateCall.msg.model /\ stateCall.msg.contextTokens
       /\ stateCall.st = "rejected"
             => ~stateCall.msg.model /\ ~stateCall.msg.contextTokens

\* A getState() whose state query succeeded and whose stats query failed returned.
C16_Witness ==
    /\ stateCall.state = "done"
    /\ stateCall.st = "resolved"
    /\ stateCall.stats = "rejected"
    /\ promises[stateCall.reqState].state = "resolved"
    /\ promises[stateCall.reqStats].state = "rejected"

\* C17: sendPrompt() returns the ids registered at the call, with the prompt
\* still outstanding; and each failed submission (client not running at the
\* call, or the prompt's promise rejected later) hands exactly one error
\* message to every subscriber that is registered and available at that moment.
C17_PromptFailureBroadcastsOneError ==
    [][/\ (nEvents' # nEvents /\ lastEvent'.type = "sendPrompt")
             => /\ promptRet' = [set |-> TRUE, ids |-> Registered]
                /\ IsRunning => /\ Len(promises') = Len(promises) + 1
                                /\ promises'[Len(promises')].state = "pending"
                /\ \A c \in Registered :
                      available[c] =>
                         sent'[c] = sent[c] \o
                            [k \in 1..(IF IsRunning THEN 0 ELSE 1) |-> ErrorMsg]
       /\ (nEvents' # nEvents /\ lastEvent'.type = "error")
             => \A c \in Registered :
                   available[c] =>
                      sent'[c] = sent[c] \o
                         [k \in 1..Cardinality(WatchedPending) |-> ErrorMsg]]_vars

\* C18: a send() made while no subprocess of the client is alive (none started,
\* the last one stopped, exited with its exit dispatched, or failed to spawn)
\* throws the not-running error; a send() made while a subprocess that was not
\* told to stop is alive writes exactly one line to the input of a live
\* subprocess.  (A child that has ended but whose exit event is still to be
\* dispatched to the client holding it is left open.)
C18_SendFailsIffNoLiveChild ==
    [][lastSend'.n # lastSend.n =>
          IF \E c \in ChildIds : children[c] = "running"
          THEN /\ lastSend'.result = "wrote"
               /\ Alive(lastSend'.child)
               /\ lastSend'.lines = 1
          ELSE (process = 0 \/ children[process] # "exited")
                  => lastSend'.result = "threw"]_vars

\* C19: the ids of all prompts and requests issued so far are pairwise distinct;
\* a request leaves "pending" only in a step that handles a response line with
\* the request's own id (resolved for success = true, rejected for false) or an
\* "error" event of the child; and a settled request never changes again.
C19_RequestSettledByOwnIdOnce ==
    [][/\ \A i, j \in DOMAIN promises' : i # j => promises'[i].id # promises'[j].id
       /\ \A i \in DOMAIN promises :
             /\ promises[i].state # "pending" => promises'[i] = promises[i]
             /\ (/\ promises[i].kind = "request"
                 /\ promises[i].state = "pending"
                 /\ promises'[i].state # "pending")
                   => \/ /\ lastLine'.n # lastLine.n
                         /\ lastLine'.id = promises[i].id
                         /\ promises'[i].state =
                               IF lastLine'.success THEN "resolved" ELSE "rejected"
                      \/ /\ lastLine' = lastLine
                         /\ promises'[i].state = "rejected"
                         /\ \A k \in DOMAIN promises' : promises'[k].state # "pending"
             /\ (/\ promises[i].kind = "request"
                 /\ promises[i].state = "pending"
                 /\ lastLine'.n # lastLine.n
                 /\ lastLine'.id = promises[i].id)
                   => promises'[i].state # "pending"]_vars

\* Two requests are outstanding with different ids, a line with the id of the
\* second has resolved it and the first is still pending.
C19_Witness ==
    /\ Len(promises) = 2
    /\ promises[1].kind = "request"
    /\ promises[1].state = "pending"
    /\ promises[2].kind = "request"
    /\ promises[2].state = "resolved"
    /\ lastLine.id = promises[2].id
    /\ lastLine.success

\* C20: a start() that spawned a child whose binary is missing, or whose child
\* has ended by the time start() comes back, fails: it does not return
\* normally, and the client does not report itself as running.
C20_StartFailsOnMissingOrDeadChild ==
    (/\ startCall.state = "done"
     /\ startCall.child # 0
     /\ startCall.childAtReturn \in {"failed", "exited", "reaped"})
       => startCall.result = "rejected" /\ ~startCall.running

\* C21: a line that is not valid JSON is dropped: the step that handles it
\* emits no response and no event (no promise changes, nothing is broadcast, the
\* last response line stays what it was) and ends without an exception, so the
\* lines after it are handled.
C21_MalformedLineDropped ==
    [][badLines'.n # badLines.n =>
          /\ ~badLines'.threw
          /\ promises' = promises
          /\ lastLine' = lastLine
          /\ hubLog' = hubLog
          /\ sent' = sent]_vars

\* A request was resolved by a response line handled after a dropped line.
C21_Witness ==
    /\ badLines.n > 0
    /\ lastLine.n > badLines.at
    /\ \E i \in DOMAIN promises :
          /\ promises[i].kind = "request"
          /\ promises[i].state = "resolved"
          /\ promises[i].id = lastLine.id

\* C22: a step in which broadcast() runs leaves the registry as it was, also
\* when sends fail; the registry changes only in steps that broadcast nothing
\* and add one new subscriber at the end (registerClient) or take one
\* registered subscriber out (unregisterClient).
C22_BroadcastKeepsRegistry ==
    [][/\ (hubLog' # hubLog \/ bcastResult' # bcastResult) => clients' = clients
       /\ clients' # clients =>
             /\ hubLog' = hubLog
             /\ \E c \in ClientIds :
                   \/ c \notin Registered /\ clients' = Append(clients, c)
                   \/ c \in Registered
                        /\ clients' = SelectSeq(clients, LAMBDA x : x # c)]_vars

\* A broadcast in which a send threw has happened and both subscribers,
\* the failing one included, are registered and available.
C22_Witness ==
    /\ bcastResult = "rejected"
    /\ Len(clients) = 2
    /\ \A c \in Registered : available[c]
    /\ \E c \in Registered : sendKind[c] = "sync" /\ sent[c] # <<>>

\* C23: at most one prompt written to a live subprocess is without its
\* agent_end at any time, whoever submitted it (a user through sendPrompt, the
\* heartbeat).
C23_OneTurnInFlight ==
    Cardinality({i \in Listening : Alive(promises[i].child)}) <= 1

\* C25: every resolved prompt() got exactly the deltas emitted since it was
\* submitted, in order, each once.
C25_PromptResolvesWithItsDeltas ==
    \A i \in DOMAIN turns : turns[i].done => turns[i].got = turns[i].since

\* C24: every broadcast of an event of a turn in which no send throws hands the event to
\* every registered subscriber, whoever submitted the prompt.
C24_EveryClientSeesEveryEvent ==
    [][(TurnEvents(NewMessages) # <<>> /\ bcastResult' = "resolved"
           /\ bcastExclude' = 0) =>
          \A c \in Registered : sent'[c] = sent[c] \o NewMessages]_vars

\* C26: a connection is registered in the hub exactly when it is in the
\* gateway's Map, and a connection that is closed or was terminated is not
\* registered.
C26_RegisteredIffConnected ==
    \A c \in ClientIds :
        /\ c \in Registered <=> wsClients[c].inMap
        /\ wsClients[c].socket \in {"closed", "terminated"} => c \notin Registered

\* The heartbeat terminated one connection whose close event is still to come,
\* while the other connection, which answered its ping, stays connected.
C26_Witness ==
    \E c, d \in ClientIds :
        /\ wsClients[c].socket = "terminated"
        /\ wsClients[d].socket = "open" /\ d \in Registered
        /\ wss = "listening"

\* C27: the tool-active flag is set as long as an upstream tool invocation is
\* open, so with two overlapping invocations it stays set after the end of the
\* first.
C27_FlagSetWhileToolOpen == upOpen # {} => insideTool

\* C28: right after an agent_end is handled (done broadcast) the prose buffer,
\* the prose-start offset, the tool-active flag and the thinking buffer are
\* empty.
C28_TurnStateEmptyAfterDone ==
    lastEvent.type = "agent_end" =>
        /\ currentText = <<>>
        /\ proseStartOffset = 0
        /\ ~insideTool
        /\ currentThinking = <<>>

\* C29: the compaction counter equals the number of auto_compaction_end events
\* handled since archiveAndStartNew() last succeeded: each event adds one, a
\* success resets it, a failure leaves it.
C29_CounterCountsCompactionEnds == compactionCount = endsSince

\* An archiveAndStartNew() has failed after a compaction was counted.
C29_Witness ==
    /\ newCall.state = "done"
    /\ newCall.error = "rejected"
    /\ compactionCount = 1

\* The "exit" events dispatched so far.
Exits == Cardinality({c \in ChildIds : children[c] = "reaped"})

\* C30: every exit event has exactly one start() attempt, made or pending, and
\* the pending one is made; a child whose spawn failed has no exit event, so
\* nothing follows a failed attempt; every other attempt leaves the client running.
C30_OneRestartPerExit ==
    /\ [](restartAttempts + restartTimers = Exits)
    /\ [][/\ \A c \in ChildIds : children[c] = "failed" => children'[c] = "failed"
          /\ restartAttempts' # restartAttempts =>
                (IsRunning' \/ children'[process'] = "failed")]_vars
    /\ \A k \in 1..MaxSpawn : (Exits >= k /\ CanSpawn) ~> (restartAttempts >= k)

\* A restart has brought the client back, and the restart after the next exit
\* failed to spawn: no timer is pending and no child is left.
C30_Witness ==
    /\ restartAttempts = 2
    /\ restartTimers = 0
    /\ process # 0
    /\ children[process] = "failed"
    /\ \A c \in ChildIds : ~Alive(c) /\ children[c] # "exited"

\* The content read is a lock that records another session path.
Mismatch(raw) == raw.kind = "lock" /\ raw.session = "other"

\* C31: a call that has read a marker recording another session path returns
\* at once, leaving the marker on disk as it is and sending no signal: poll
\* leaves the arbiter Unowned, checkStatus yields none, killTui returns not
\* killed without a pid.
C31_MismatchedMarkerUntouched ==
    [][\A c \in InFlight :
          (c.stage = "read" /\ Mismatch(c.raw) /\ Leaves(c)) =>
             /\ lockFile' = lockFile
             /\ signals' = signals
             /\ BagCardinality(calls') = BagCardinality(calls) - 1
             /\ c.op = "poll" => ~tuiActive'
             /\ c.op = "checkStatus" => statusResult' = "none"
             /\ c.op = "killTui" => killResult' = KillResult(FALSE, 0)]_vars

\* A marker of a live process for another session is on disk after a poll took
\* the arbiter from ExternallyOwned to Unowned and a killTui() returned not
\* killed, and no signal was ever sent.
C31_Witness ==
    /\ Mismatch(lockFile)
    /\ lockFile.pid \in Pids
    /\ pidState[lockFile.pid] = "alive"
    /\ notes = <<"tui-detected", "tui-gone">>
    /\ killResult = KillResult(FALSE, 0)
    /\ signals = <<>>

\* The fields of an argument object in the priority order of the label.
FieldsInOrder(args) == <<args.command, args.path, args.pattern, args.url, args.query>>

\* The first field that is present, or "".
FirstField(args) ==
    LET present == {i \in 1..5 : FieldsInOrder(args)[i] # ""}
    IN  IF present = {} THEN ""
        ELSE FieldsInOrder(args)[CHOOSE i \in present : \A j \in present : i <= j]

\* C32: for every tool name the label of an argument object carries the first
\* field present in the order command, path, pattern, url, query, and it is the
\* JSON dump exactly when none is present.
C32_LabelFromFirstFieldPresent ==
    (labelCall.set /\ labelCall.args.obj) =>
        IF FirstField(labelCall.args) = ""
        THEN labelCall.label = <<labelCall.toolName, " ", "json">>
        ELSE \E i \in 1..Len(labelCall.label) :
                labelCall.label[i] = FirstField(labelCall.args)

\* C33: after an exit in the middle of a turn, a text delta of a later turn
\* that arrives with no tool invocation of that turn open is broadcast, and
\* the done of such a turn carries that turn's text only.
C33_NoLeakAcrossExit ==
    [][(cut.set /\ upOpen = {}) =>
          /\ IsEvent("text_delta") =>
                NewMessages = <<Msg("text_delta", "", lastEvent'.text, "")>>
          /\ IsEvent("agent_end") =>
                /\ NewMessages # <<>>
                /\ NewMessages[Len(NewMessages)].text
                      = ExtractMarkdownImages(sinceToolEnd).textOnly]_vars

\* A tool_end was broadcast after the last done.
ToolEndedInTurn ==
    \E i \in 1..Len(hubLog) :
        /\ hubLog[i].type = "tool_end"
        /\ \A j \in (i + 1)..Len(hubLog) : hubLog[j].type # "done"

\* C34: when a tool invocation ended in the turn and the text streamed since
\* the last tool_execution_end has prose in it, the done of the turn has a
\* final text that is not empty, whether or not a text_done replaced the
\* buffer in between.
C34_TextDoneKeepsLastProse ==
    [][(IsEvent("agent_end") /\ upOpen = {} /\ ToolEndedInTurn
           /\ ExtractMarkdownImages(sinceToolEnd).textOnly # <<>>) =>
          /\ NewMessages # <<>>
          /\ NewMessages[Len(NewMessages)].type = "done"
          /\ NewMessages[Len(NewMessages)].text # <<>>]_vars

\* A step of a killTui() call: the call is made, or it moves on from an await.
KillTuiActs ==
    \/ nKills' # nKills
    \/ \E c \in InFlight : c.op \in KillOps /\ Leaves(c)

\* C35: no step of killTui() changes the arbiter's ownership state or notifies
\* a listener; after a killTui() that sent the signal and removed the marker, a
\* poll that found the marker absent leaves the arbiter Unowned, with exactly
\* one tui-gone if it was ExternallyOwned and none otherwise.
C35_KillLeavesNotifyingToPoll ==
    [][/\ KillTuiActs => UNCHANGED <<tuiActive, notes>>
       /\ \A c \in InFlight :
             (/\ c.op = "poll" /\ c.stage = "read" /\ c.raw = NoFile /\ Leaves(c)
              /\ killResult.killed) =>
                /\ ~tuiActive'
                /\ notes' = IF tuiActive THEN Append(notes, "tui-gone") ELSE notes]_vars

\* One killTui() signalled the owner and removed the marker, and the poll after
\* it took the arbiter from ExternallyOwned to Unowned with one tui-gone.
C35_Witness ==
    /\ nKills = 1
    /\ killResult.killed
    /\ signals = <<killResult.pid>>
    /\ lockFile = NoFile
    /\ calls = EmptyBag
    /\ ~tuiActive
    /\ notes = <<"tui-detected", "tui-gone">>

\* A heartbeat tick: a connection is pinged (isAlive cleared), or terminated
\* while the server keeps listening.
IsHeartbeat ==
    /\ wss' = "listening"
    /\ \E c \in ClientIds :
          \/ wsClients[c].inMap /\ wsClients[c].isAlive /\ ~wsClients'[c].isAlive
          \/ wsClients[c].socket = "open" /\ wsClients'[c].socket = "terminated"

\* C36: at a heartbeat tick a connection whose last ping is unanswered is
\* terminated and removed from the Map and from the registry; a connection
\* that answered (or was never pinged) stays connected and registered and is
\* pinged again; no other step of the listening server terminates a socket.
C36_HeartbeatTerminatesSilentOnly ==
    [][IsHeartbeat =>
          \A c \in InMap :
              IF wsClients[c].isAlive
              THEN /\ wsClients'[c].socket = wsClients[c].socket
                   /\ wsClients'[c].inMap
                   /\ ~wsClients'[c].isAlive
                   /\ \E i \in DOMAIN clients' : clients'[i] = c
              ELSE /\ wsClients'[c].socket = "terminated"
                   /\ ~wsClients'[c].inMap
                   /\ \A i \in DOMAIN clients' : clients'[i] # c]_vars

\* After a tick one connection, silent since its ping, is terminated and gone
\* from Map and registry, while the other, which had answered, is connected,
\* registered and pinged again.
C36_Witness ==
    \E c, d \in ClientIds :
        /\ wss = "listening"
        /\ wsClients[c].socket = "terminated" /\ ~wsClients[c].inMap
        /\ c \notin Registered
        /\ wsClients[d].socket = "open" /\ wsClients[d].inMap /\ ~wsClients[d].isAlive
        /\ wsClients[d].confirmation = "sent"
        /\ d \in Registered

\* C37: when tick() takes the response of the only heartbeat turn so far as no
\* action, no registered subscriber was sent a text_delta, a done or a
\* proactive message; and a heartbeat prompt while the agent is not running
\* leaves no request outstanding.
C37_NoActionBeatIsSilent ==
    [][/\ \A i \in DOMAIN turns :
             (/\ Len(turns) = 1
              /\ turns[i].src = "heartbeat"
              /\ turns[i].told = "no" /\ turns'[i].told = "skipped") =>
                \A c \in Registered : \A k \in DOMAIN sent'[c] :
                    sent'[c][k].type \notin {"text_delta", "done", "proactive"}
       /\ (lastCall' = "prompt_not_running" /\ lastCall # lastCall') =>
             promises' = promises]_vars

\* C38: since the last setContext (one turn) the Telegram subscriber has
\* created at most one response message.
C38_OneResponseMessagePerTurn == tg.created <= 1

\* The user, assistant and tool-image lines of a log, as their positions.
KeptLines(log) ==
    SelectSeq([i \in 1..Len(log) |-> i],
              LAMBDA i : log[i] \in {"user", "assistant", "toolImage"})

\* C39: a get_history with limit n >= 0 is answered with at most n messages,
\* the last n user, assistant and tool-image entries in log order; with an
\* unreadable log it is answered with an empty history.
C39_HistoryIsLastN ==
    (histCall.set /\ histCall.hasLimit) =>
        LET kept == KeptLines(histCall.log)
            n == IF histCall.limit < Len(kept) THEN histCall.limit ELSE Len(kept)
        IN IF histCall.readable
           THEN /\ Len(histCall.messages) = n
                /\ \A k \in 1..n :
                      histCall.messages[k].id = kept[Len(kept) - n + k]
           ELSE histCall.messages = <<>>

\* The content read is a lock that records a pid and no session path.
NoSession(raw) == raw.kind = "lock" /\ raw.pid \in Pids /\ raw.session = "none"

\* C40: a call that has read a marker with a pid and no session path does not
\* take it as ownership: a poll does not notify tui-detected or make the arbiter
\* ExternallyOwned, a checkStatus does not yield active, a killTui sends no
\* signal.
C40_MarkerWithoutSessionRejected ==
    [][\A c \in InFlight :
          (c.stage = "read" /\ NoSession(c.raw) /\ Leaves(c)) =>
             /\ c.op = "poll" => (notes' = notes \/ notes' = Append(notes, "tui-gone"))
             /\ c.op = "poll" => ~tuiActive'
             /\ c.op = "checkStatus" => statusResult' # "active"
             /\ c.op = "killTui" => signals' = signals]_vars

====
